---- MODULE Spec2Model ----
(***************************************************************************)
(* MediChain: the Authenticity Ledger Engine, implemented twice.           *)
(*   - src/blockchain.js            the in-browser engine (class            *)
(*                                  MediChainBlockchain)                    *)
(*   - src/contracts/MediChain.sol  the Solidity contract                   *)
(* In all but the last, every handler is one atomic action (operations are *)
(* awaited one at a time); the specifications are                          *)
(*   Spec          the JS engine alone                                     *)
(*   SpecContract  the contract alone                                      *)
(*   SpecDual      the same register / transfer / verify calls applied to  *)
(*                 both implementations                                    *)
(*   SpecLoaded    the JS engine started on a saved document               *)
(*   SpecStatus    both implementations with the contract's status         *)
(*                 transactions                                            *)
(*   SpecAsync     the JS engine step by step: calls that overlap at their *)
(*                 awaits                                                  *)
(*   SpecFaulty    SpecAsync with a save() that can throw                  *)
(***************************************************************************)
EXTENDS Integers, Sequences, FiniteSets, TLC

VARIABLES
    chain,          \* this.chain: the blocks, chain[1] is the genesis block
    medicines,      \* this.medicines: a Map, here its entries in insertion order
    transactions,   \* this.transactions
    alerts,         \* this.alerts
    scanHistory,    \* this.scanHistory
    storage,        \* localStorage['medichain_data']: <<>> or <<snapshot>>
    now,            \* the clock read by new Date() / Date.now()
    last,           \* the last call of the JS engine: arguments, state before, result
    calls,          \* the calls of the JS engine that are suspended at an await
    sol,            \* the storage of the deployed contract
    solLast         \* the last transaction sent to the contract and its outcome

vars == <<chain, medicines, transactions, alerts, scanHistory, storage, now,
          last, calls, sol, solLast>>

jsVars == <<chain, medicines, transactions, alerts, scanHistory, storage, last,
            calls>>

----------------------------------------------------------------------------
(* Bounds of the model and program constants *)

\* The run stops growing the chain at this many blocks.
MaxBlocks == 3

\* The clock runs from 0 to MaxTime.
MaxTime == 1

\* Lengths of the run of leading zero characters that the modelled digest
\* takes: 0 .. ZeroRunMod - 1.
ZeroRunMod == 3

\* this.difficulty = 2
Difficulty == 2

\* new Date(undefined) and new Date('garbage') are Invalid Date: its time
\* value is NaN and every comparison with it is false.
NaNDate == -1

\* undefined, the value of a field an object does not have, and null, the
\* blockNumber of a transaction that is not in a block yet.
Undefined == -1
Null == -1

BatchIds == {"", "B-001"}

\* The batch numbers sent to the contract when it runs alone.
SolBatchIds == {"", "B-001", "B-002"}

\* msg.sender: the deployer and another address, which the owner may
\* authorize.
Addresses == {"owner", "maker"}

\* msg.sender of the transactions in which the contract only records it.
Callers == {"maker"}

\* The contract stops taking state-growing transactions at this many stored
\* entries (records, checkpoints, verification records, alerts).
MaxEntries == 3

MedicineNames == {"", "Amoxicillin"}

\* Expiry dates as the time value new Date(expiryDate) yields.
ExpiryDates == {1, NaNDate}

Stages == {"Shipped", "Delivered"}

\* The calls of the engine that can be in flight at once: one name for each.
Slots == {"first", "second"}

----------------------------------------------------------------------------
(* SHA-256 and blocks *)

\* The length of the run of '0' characters at the start of the digest of a
\* block: a fixed function of the hashed fields.
ZeroRun(index, timestamp, nonce) == (index + timestamp + nonce) % ZeroRunMod

\* sha256 of the string a block is hashed from.  The digest is kept as the
\* hashed content itself (no two contents share a digest) together with the
\* length of its leading run of zeros.
BlockDigest(index, previousHash, timestamp, data, nonce) ==
    [zeros |-> ZeroRun(index, timestamp, nonce),
     body  |-> <<index, previousHash, timestamp, data, nonce>>]

\* sha256 of the string a transaction is hashed from, prefixed with '0x'.
TxDigest(id, type, data, timestamp) ==
    [zeros |-> 0, body |-> <<"0x", id, type, data, timestamp>>]

\* The empty string '' a new block's hash starts as, and the '0' the genesis
\* block has for a previous hash.
EmptyHash == [zeros |-> 0, body |-> <<>>]
GenesisPrevious == [zeros |-> 0, body |-> <<"0">>]

\* new Block(index, timestamp, data, previousHash)
NewBlock(index, timestamp, data, previousHash) ==
    [index |-> index, timestamp |-> timestamp, data |-> data,
     previousHash |-> previousHash, hash |-> EmptyHash, nonce |-> 0]

\* Block.calculateHash
CalculateHash(b) ==
    BlockDigest(b.index, b.previousHash, b.timestamp, b.data, b.nonce)

\* this.hash.substring(0, difficulty) === Array(difficulty + 1).join('0')
HasZeroPrefix(hash, difficulty) ==
    IF hash = EmptyHash THEN difficulty = 0 ELSE hash.zeros >= difficulty

\* Block.mineBlock: the nonce goes up by one before each digest.
RECURSIVE MineBlock(_, _)
MineBlock(b, difficulty) ==
    IF HasZeroPrefix(b.hash, difficulty) THEN b
    ELSE LET n == [b EXCEPT !.nonce = @ + 1]
         IN  MineBlock([n EXCEPT !.hash = CalculateHash(n)], difficulty)

----------------------------------------------------------------------------
(* The engine as a value: the fields of MediChainBlockchain *)

Engine == [chain |-> chain, medicines |-> medicines, transactions |-> transactions,
           alerts |-> alerts, scanHistory |-> scanHistory, storage |-> storage,
           notified |-> <<>>]

\* The document save() writes: JSON.stringify of the five collections.
Snapshot(E) ==
    [chain |-> E.chain, medicines |-> E.medicines, transactions |-> E.transactions,
     alerts |-> E.alerts, scanHistory |-> E.scanHistory]

\* save()
Save(E) == [E EXCEPT !.storage = <<Snapshot(E)>>]

\* emit(event, data), with one listener registered for every event: the
\* listener is called at once and notes the event, its data, and the
\* collections and the saved document as they are at that moment.  The notes
\* of a call start empty (notified of Engine).
Emit(E, event, data) ==
    [E EXCEPT !.notified = Append(@, [event |-> event, data |-> data,
                                      seen |-> Snapshot(E), saved |-> E.storage])]

\* Map.has / Map.get / Map.set on the entries <<key, value>>
MapHas(m, k) == \E i \in 1..Len(m) : m[i][1] = k
MapIndex(m, k) == CHOOSE i \in 1..Len(m) : m[i][1] = k
MapGet(m, k) == m[MapIndex(m, k)][2]
MapSet(m, k, v) ==
    IF MapHas(m, k) THEN [m EXCEPT ![MapIndex(m, k)] = <<k, v>>]
    ELSE Append(m, <<k, v>>)
MapKeys(m) == {m[i][1] : i \in 1..Len(m)}

\* getLatestBlock
GetLatestBlock(E) == E.chain[Len(E.chain)]

\* createGenesisBlock
CreateGenesisBlock(E, t) ==
    LET g == NewBlock(0, t, [type |-> "genesis"], GenesisPrevious)
    IN  Save([E EXCEPT !.chain = Append(@, [g EXCEPT !.hash = CalculateHash(g)])])

\* addBlock numbering the new block one past the chain length.
AddBlockSkippingIndex(E, data, t) ==
    LET newBlock == MineBlock(NewBlock(Len(E.chain) + 1, t, data,
                                       GetLatestBlock(E).hash), Difficulty)
    IN  Save([E EXCEPT !.chain = Append(@, newBlock)])

\* addBlock linking the new block to the first block instead of the head.
AddBlockStaleHead(E, data, t) ==
    LET newBlock == MineBlock(NewBlock(Len(E.chain), t, data, E.chain[1].hash),
                              Difficulty)
    IN  Save([E EXCEPT !.chain = Append(@, newBlock)])

\* addBlock: mines a block on the current head, appends it and saves.
AddBlock(E, data, t) ==
    LET newBlock == MineBlock(NewBlock(Len(E.chain), t, data, GetLatestBlock(E).hash),
                              Difficulty)
    IN  Emit(Save([E EXCEPT !.chain = Append(@, newBlock)]), "blockAdded", newBlock)

\* new Transaction(type, data, from) followed by generateHash().  The id is
\* 'tx_' + Date.now() + '_' + a Math.random() suffix; the suffix is not kept.
NewTransaction(type, data, from, t) ==
    LET id == <<"tx_", t>>
    IN  [id |-> id, type |-> type, data |-> data, from |-> from, timestamp |-> t,
         hash |-> TxDigest(id, type, data, t), blockNumber |-> Null,
         status |-> "pending"]

\* The transaction given its block number and left pending.
ConfirmPending(tx, block) == [tx EXCEPT !.blockNumber = block.index]

\* tx.blockNumber = block.index; tx.status = 'confirmed'
Confirm(tx, block) == [tx EXCEPT !.blockNumber = block.index, !.status = "confirmed"]

\* isChainValid: the loop from block 1 on, false at the first mismatch.
RECURSIVE ChainValidFrom(_, _)
ChainValidFrom(c, i) ==
    IF i > Len(c) THEN TRUE
    ELSE LET current == c[i]
             previous == c[i - 1]
             block == [NewBlock(current.index, current.timestamp, current.data,
                                current.previousHash) EXCEPT !.nonce = current.nonce]
         IN  IF current.hash # CalculateHash(block) THEN FALSE
             ELSE IF current.previousHash # previous.hash THEN FALSE
             ELSE ChainValidFrom(c, i + 1)

\* isChainValid with its loop starting one block later.
IsChainValidSkippingFirst(E) == ChainValidFrom(E.chain, 3)

\* isChainValid()
IsChainValid(E) == ChainValidFrom(E.chain, 2)

\* Array.prototype.slice(-n): a new list of the last n entries, all of them
\* when there are fewer.
SliceLast(list, n) ==
    IF Len(list) <= n THEN list ELSE SubSeq(list, Len(list) - n + 1, Len(list))

\* Array.prototype.reverse, on the list it is called on.
Reverse(list) == [i \in 1..Len(list) |-> list[Len(list) + 1 - i]]

\* The number of transactions getStats reports as recent.
RecentCount == 10

\* getStats listing the recent transactions oldest first.
GetStatsOldestFirst(E) ==
    [totalMedicines |-> Len(E.medicines),
     verifiedAuthentic |->
         Cardinality({i \in 1..Len(E.scanHistory) : E.scanHistory[i].result = "authentic"}),
     counterfeitAlerts |-> Len(E.alerts),
     totalBlocks |-> Len(E.chain),
     totalTransactions |-> Len(E.transactions),
     latestBlock |-> IF Len(E.chain) = 0 THEN Undefined ELSE GetLatestBlock(E),
     recentTransactions |-> SliceLast(E.transactions, RecentCount)]

\* getStats(); latestBlock is undefined while the chain is empty.
GetStats(E) ==
    [totalMedicines |-> Len(E.medicines),
     verifiedAuthentic |->
         Cardinality({i \in 1..Len(E.scanHistory) : E.scanHistory[i].result = "authentic"}),
     counterfeitAlerts |-> Len(E.alerts),
     totalBlocks |-> Len(E.chain),
     totalTransactions |-> Len(E.transactions),
     latestBlock |-> IF Len(E.chain) = 0 THEN Undefined ELSE GetLatestBlock(E),
     recentTransactions |-> Reverse(SliceLast(E.transactions, RecentCount))]

----------------------------------------------------------------------------
(* The operations of the JS engine.  Each yields the engine after the call, *)
(* the error thrown ("none" when it returns) and what it returns.           *)

Returned(E) == [E |-> E, threw |-> "none", isAuthentic |-> FALSE, checks |-> <<>>]
Thrown(E, msg) == [E |-> E, threw |-> msg, isAuthentic |-> FALSE, checks |-> <<>>]

\* registerMedicine without its duplicate check.
RegisterRejectsNothing(E, medicineData) == "none"

\* registerMedicine's only precondition.
RegisterRejects(E, medicineData) ==
    IF MapHas(E.medicines, medicineData.batchNumber) THEN "already registered"
    ELSE "none"

\* registerMedicine that gives the record the chain length after the push
\* for a block number.
RegisterMedicineOffByOne(E, medicineData, t) ==
    LET batchNumber == medicineData.batchNumber
        rejected == RegisterRejects(E, medicineData)
        tx == NewTransaction("registration",
                  [batchNumber |-> batchNumber,
                   medicineName |-> medicineData.medicineName,
                   manufacturerId |-> medicineData.manufacturerId],
                  medicineData.manufacturerId, t)
        E1 == AddBlock(E, [type |-> "medicine_registration",
                           batchNumber |-> batchNumber,
                           medicineName |-> medicineData.medicineName,
                           manufacturerId |-> medicineData.manufacturerId,
                           txHash |-> tx.hash], t)
        block == GetLatestBlock(E1)
        medicine ==
            [batchNumber |-> batchNumber,
             medicineName |-> medicineData.medicineName,
             manufacturerId |-> medicineData.manufacturerId,
             manufacturerName |-> medicineData.manufacturerName,
             mfgDate |-> medicineData.mfgDate,
             expiryDate |-> medicineData.expiryDate,
             registeredAt |-> t,
             status |-> "active",
             scanCount |-> 0,
             supplyChain |-> << [stage |-> "Manufactured",
                                 actor |-> IF medicineData.manufacturerName # ""
                                           THEN medicineData.manufacturerName
                                           ELSE medicineData.manufacturerId,
                                 location |-> "Manufacturing Plant",
                                 timestamp |-> t,
                                 txHash |-> tx.hash] >>,
             verifications |-> <<>>,
             blockHash |-> block.hash,
             blockNumber |-> Len(E1.chain)]
    IN  IF rejected # "none" THEN Thrown(E, rejected)
        ELSE Returned(Save([E1 EXCEPT
                 !.medicines = MapSet(@, batchNumber, medicine),
                 !.transactions = Append(@, Confirm(tx, block))]))

\* registerMedicine(medicineData)
RegisterMedicine(E, medicineData, t) ==
    LET batchNumber == medicineData.batchNumber
        rejected == RegisterRejects(E, medicineData)
        tx == NewTransaction("registration",
                  [batchNumber |-> batchNumber,
                   medicineName |-> medicineData.medicineName,
                   manufacturerId |-> medicineData.manufacturerId],
                  medicineData.manufacturerId, t)
        E1 == AddBlock(E, [type |-> "medicine_registration",
                           batchNumber |-> batchNumber,
                           medicineName |-> medicineData.medicineName,
                           manufacturerId |-> medicineData.manufacturerId,
                           txHash |-> tx.hash], t)
        block == GetLatestBlock(E1)
        medicine ==
            [batchNumber |-> batchNumber,
             medicineName |-> medicineData.medicineName,
             manufacturerId |-> medicineData.manufacturerId,
             manufacturerName |-> medicineData.manufacturerName,
             mfgDate |-> medicineData.mfgDate,
             expiryDate |-> medicineData.expiryDate,
             registeredAt |-> t,
             status |-> "active",
             scanCount |-> 0,
             supplyChain |-> << [stage |-> "Manufactured",
                                 actor |-> IF medicineData.manufacturerName # ""
                                           THEN medicineData.manufacturerName
                                           ELSE medicineData.manufacturerId,
                                 location |-> "Manufacturing Plant",
                                 timestamp |-> t,
                                 txHash |-> tx.hash] >>,
             verifications |-> <<>>,
             blockHash |-> block.hash,
             blockNumber |-> block.index]
    IN  IF rejected # "none" THEN Thrown(E, rejected)
        ELSE Returned(Emit(Save([E1 EXCEPT
                               !.medicines = MapSet(@, batchNumber, medicine),
                               !.transactions = Append(@, Confirm(tx, block))]),
                           "medicineRegistered",
                           [medicine |-> medicine, transaction |-> Confirm(tx, block),
                            block |-> block]))

\* createAlert that returns without storing or logging anything.
CreateAlertDropped(E, batchNumber, reason, t) == E

\* createAlert that acts only for a batch that is in the medicine map.
CreateAlertKnownOnly(E, batchNumber, reason, t) ==
    LET alert == [id |-> <<"alert_", t>>, batchNumber |-> batchNumber,
                  reason |-> reason, timestamp |-> t, severity |-> "high",
                  status |-> "active"]
        E1 == [E EXCEPT !.alerts = Append(@, alert)]
        tx == NewTransaction("alert", [batchNumber |-> batchNumber, reason |-> reason],
                             "system", t)
        E2 == AddBlock(E1, [type |-> "counterfeit_alert", batchNumber |-> batchNumber,
                            reason |-> reason, txHash |-> tx.hash], t)
    IN  IF ~MapHas(E.medicines, batchNumber) THEN E
        ELSE Save([E2 EXCEPT !.transactions = Append(@, Confirm(tx, GetLatestBlock(E2)))])

\* createAlert that keeps only the new alert in the list.
CreateAlertReplacing(E, batchNumber, reason, t) ==
    LET alert == [id |-> <<"alert_", t>>, batchNumber |-> batchNumber,
                  reason |-> reason, timestamp |-> t, severity |-> "high",
                  status |-> "active"]
        E1 == [E EXCEPT !.alerts = <<alert>>]
        tx == NewTransaction("alert", [batchNumber |-> batchNumber, reason |-> reason],
                             "system", t)
        E2 == AddBlock(E1, [type |-> "counterfeit_alert", batchNumber |-> batchNumber,
                            reason |-> reason, txHash |-> tx.hash], t)
    IN  Save([E2 EXCEPT !.transactions = Append(@, Confirm(tx, GetLatestBlock(E2)))])

\* createAlert that stores the alert and logs no block or transaction.
CreateAlertUnlogged(E, batchNumber, reason, t) ==
    Save([E EXCEPT !.alerts = Append(@, [id |-> <<"alert_", t>>,
                                         batchNumber |-> batchNumber,
                                         reason |-> reason, timestamp |-> t,
                                         severity |-> "high", status |-> "active"])])

\* createAlert(batchNumber, reason); the alert id is 'alert_' + Date.now().
CreateAlert(E, batchNumber, reason, t) ==
    LET alert == [id |-> <<"alert_", t>>, batchNumber |-> batchNumber,
                  reason |-> reason, timestamp |-> t, severity |-> "high",
                  status |-> "active"]
        E1 == [E EXCEPT !.alerts = Append(@, alert)]
        tx == NewTransaction("alert", [batchNumber |-> batchNumber, reason |-> reason],
                             "system", t)
        E2 == AddBlock(E1, [type |-> "counterfeit_alert", batchNumber |-> batchNumber,
                            reason |-> reason, txHash |-> tx.hash], t)
    IN  Emit(Save([E2 EXCEPT !.transactions = Append(@, Confirm(tx, GetLatestBlock(E2)))]),
             "alertCreated", alert)

\* transferMedicine that puts the new checkpoint in the place of the list.
TransferOverwriting(E, batchNumber, stage, actor, location, t) ==
    LET medicine == MapGet(E.medicines, batchNumber)
        tx == NewTransaction("transfer",
                  [batchNumber |-> batchNumber, stage |-> stage, actor |-> actor,
                   location |-> location], actor, t)
        E1 == AddBlock(E, [type |-> "supply_chain_transfer", batchNumber |-> batchNumber,
                           stage |-> stage, actor |-> actor, txHash |-> tx.hash], t)
        moved == [medicine EXCEPT !.supplyChain =
                     << [stage |-> stage, actor |-> actor, location |-> location,
                         timestamp |-> t, txHash |-> tx.hash] >>]
    IN  IF ~MapHas(E.medicines, batchNumber) THEN Thrown(E, "Medicine not found")
        ELSE Returned(Save([E1 EXCEPT
                 !.transactions = Append(@, Confirm(tx, GetLatestBlock(E1))),
                 !.medicines = MapSet(@, batchNumber, moved)]))

\* transferMedicine that does not push its transaction.
TransferUnrecorded(E, batchNumber, stage, actor, location, t) ==
    LET medicine == MapGet(E.medicines, batchNumber)
        tx == NewTransaction("transfer",
                  [batchNumber |-> batchNumber, stage |-> stage, actor |-> actor,
                   location |-> location], actor, t)
        E1 == AddBlock(E, [type |-> "supply_chain_transfer", batchNumber |-> batchNumber,
                           stage |-> stage, actor |-> actor, txHash |-> tx.hash], t)
        moved == [medicine EXCEPT !.supplyChain =
                     Append(@, [stage |-> stage, actor |-> actor, location |-> location,
                                timestamp |-> t, txHash |-> tx.hash])]
    IN  IF ~MapHas(E.medicines, batchNumber) THEN Thrown(E, "Medicine not found")
        ELSE Returned(Save([E1 EXCEPT !.medicines = MapSet(@, batchNumber, moved)]))

\* transferMedicine that also marks the batch sold.
TransferMarkingSold(E, batchNumber, stage, actor, location, t) ==
    LET medicine == MapGet(E.medicines, batchNumber)
        tx == NewTransaction("transfer",
                  [batchNumber |-> batchNumber, stage |-> stage, actor |-> actor,
                   location |-> location], actor, t)
        E1 == AddBlock(E, [type |-> "supply_chain_transfer", batchNumber |-> batchNumber,
                           stage |-> stage, actor |-> actor, txHash |-> tx.hash], t)
        moved == [medicine EXCEPT
                     !.status = "sold",
                     !.supplyChain =
                        Append(@, [stage |-> stage, actor |-> actor, location |-> location,
                                   timestamp |-> t, txHash |-> tx.hash])]
    IN  IF ~MapHas(E.medicines, batchNumber) THEN Thrown(E, "Medicine not found")
        ELSE Returned(Save([E1 EXCEPT
                 !.transactions = Append(@, Confirm(tx, GetLatestBlock(E1))),
                 !.medicines = MapSet(@, batchNumber, moved)]))

\* transferMedicine(batchNumber, stage, actor, location)
TransferMedicine(E, batchNumber, stage, actor, location, t) ==
    LET medicine == MapGet(E.medicines, batchNumber)
        tx == NewTransaction("transfer",
                  [batchNumber |-> batchNumber, stage |-> stage, actor |-> actor,
                   location |-> location], actor, t)
        E1 == AddBlock(E, [type |-> "supply_chain_transfer", batchNumber |-> batchNumber,
                           stage |-> stage, actor |-> actor, txHash |-> tx.hash], t)
        moved == [medicine EXCEPT !.supplyChain =
                     Append(@, [stage |-> stage, actor |-> actor, location |-> location,
                                timestamp |-> t, txHash |-> tx.hash])]
    IN  IF ~MapHas(E.medicines, batchNumber) THEN Thrown(E, "Medicine not found")
        ELSE Returned(Emit(Save([E1 EXCEPT
                               !.transactions = Append(@, Confirm(tx, GetLatestBlock(E1))),
                               !.medicines = MapSet(@, batchNumber, moved)]),
                           "transfer",
                           [medicine |-> moved,
                            transaction |-> Confirm(tx, GetLatestBlock(E1))]))

----------------------------------------------------------------------------
(* Verification *)

\* The expiry comparison the wrong way round: now > expDate.
DateBefore(expDate, t) == expDate # NaNDate /\ t > expDate

\* expDate > now, on time values; false when either side is NaN.
DateAfter(expDate, t) == expDate # NaNDate /\ expDate > t

Check(name, passed, detail) == [name |-> name, passed |-> passed, detail |-> detail]

\* The locals of verifyMedicine: the checks pushed so far and isAuthentic.
Push(acc, check) == [acc EXCEPT !.checks = Append(@, check)]
Fail(acc, check) == [acc EXCEPT !.checks = Append(@, check), !.isAuthentic = FALSE]

\* Check 1, for a batch that is in the map, and check 2.
ExistsStep(acc) ==
    Push(acc, Check("Blockchain Record Exists", TRUE, <<"Medicine found on blockchain">>))

\* Check 2 left out of the report.
MatchesStepSkipped(acc, batchNumber) == acc

MatchesStep(acc, batchNumber) ==
    Push(acc, Check("Batch Number Matches", TRUE, <<"Batch", batchNumber>>))

\* Check 3 reporting an expired batch without failing the verification.
ExpiryStepAdvisory(acc, medicine, t) ==
    Push(acc, Check("Medicine Not Expired", medicine.expiryDate > t,
                    <<"Expires", medicine.expiryDate>>))

\* Check 3: expiry.
ExpiryStep(acc, medicine, t) ==
    IF DateAfter(medicine.expiryDate, t)
    THEN Push(acc, Check("Medicine Not Expired", TRUE, <<"Expires", medicine.expiryDate>>))
    ELSE Fail(acc, Check("Medicine Not Expired", FALSE,
                         <<"EXPIRED on", medicine.expiryDate>>))

\* Check 4: not already sold.
SoldStep(acc, medicine) ==
    IF medicine.status # "sold"
    THEN Push(acc, Check("Not Previously Sold", TRUE, <<"Status", medicine.status>>))
    ELSE Fail(acc, Check("Not Previously Sold", FALSE, <<"Medicine marked as SOLD">>))

\* Check 5 failing the verification when there is no checkpoint.
SupplyChainStepGating(acc, medicine) ==
    IF Len(medicine.supplyChain) > 0
    THEN Push(acc, Check("Supply Chain Valid", TRUE,
                         <<"checkpoint(s)", Len(medicine.supplyChain)>>))
    ELSE Fail(acc, Check("Supply Chain Valid", FALSE, <<"No supply chain data">>))

\* Check 5: supply chain present; a failure leaves isAuthentic as it is.
SupplyChainStep(acc, medicine) ==
    IF Len(medicine.supplyChain) > 0
    THEN Push(acc, Check("Supply Chain Valid", TRUE,
                         <<"checkpoint(s)", Len(medicine.supplyChain)>>))
    ELSE Push(acc, Check("Supply Chain Valid", FALSE, <<"No supply chain data">>))

\* Check 6: the confirming block index is defined and lies within the chain.
IntegrityStep(acc, medicine, chainLength) ==
    IF medicine.blockNumber # Undefined /\ medicine.blockNumber < chainLength
    THEN Push(acc, Check("Blockchain Integrity", TRUE,
                         <<"Block verified", medicine.blockNumber>>))
    ELSE Fail(acc, Check("Blockchain Integrity", FALSE, <<"Block reference invalid">>))

\* checks and isAuthentic of verifyMedicine for a record that exists, after
\* check 6.
PresentChecks(medicine, batchNumber, t, chainLength) ==
    IntegrityStep(
      SupplyChainStep(
        SoldStep(
          ExpiryStep(
            MatchesStep(ExistsStep([checks |-> <<>>, isAuthentic |-> TRUE]),
                        batchNumber),
            medicine, t),
          medicine),
        medicine),
      medicine, chainLength)

\* checks and isAuthentic of verifyMedicine for a batch that is not in the map.
AbsentChecks ==
    Fail([checks |-> <<>>, isAuthentic |-> TRUE],
         Check("Blockchain Record Exists", FALSE, <<"NOT found on blockchain">>))

\* The branch of a batch that is not in the map, leaving no scan-history
\* entry.
VerifyAbsentUnlogged(E, batchNumber, t) ==
    LET E1 == CreateAlert(E, batchNumber, "Medicine not found on blockchain", t)
        tx == NewTransaction("verification",
                  [batchNumber |-> batchNumber, result |-> "COUNTERFEIT",
                   reason |-> "Not found on blockchain"], "verifier", t)
        E2 == AddBlock(E1, [type |-> "verification_failed", batchNumber |-> batchNumber,
                            txHash |-> tx.hash], t)
        E3 == [E2 EXCEPT
                 !.transactions = Append(@, Confirm(tx, GetLatestBlock(E2)))]
    IN  [E |-> Save(E3), threw |-> "none", isAuthentic |-> FALSE,
         checks |-> AbsentChecks.checks]

\* The branch of a batch that is not in the map, creating its alert after
\* the verification is logged.
VerifyAbsentAlertingLast(E, batchNumber, t) ==
    LET tx == NewTransaction("verification",
                  [batchNumber |-> batchNumber, result |-> "COUNTERFEIT",
                   reason |-> "Not found on blockchain"], "verifier", t)
        E1 == AddBlock(E, [type |-> "verification_failed", batchNumber |-> batchNumber,
                           txHash |-> tx.hash], t)
        E2 == [E1 EXCEPT
                 !.transactions = Append(@, Confirm(tx, GetLatestBlock(E1))),
                 !.scanHistory = Append(@, [batchNumber |-> batchNumber,
                                            result |-> "counterfeit", timestamp |-> t,
                                            reason |-> "Not found on blockchain"])]
        E3 == CreateAlert(E2, batchNumber, "Medicine not found on blockchain", t)
    IN  [E |-> Emit(Save(E3), "verificationComplete",
                    [isAuthentic |-> FALSE, checks |-> AbsentChecks.checks,
                     batchNumber |-> batchNumber]),
         threw |-> "none", isAuthentic |-> FALSE, checks |-> AbsentChecks.checks]

\* verifyMedicine, the branch of a batch that is not in the map.
VerifyAbsent(E, batchNumber, t) ==
    LET E1 == CreateAlert(E, batchNumber, "Medicine not found on blockchain", t)
        tx == NewTransaction("verification",
                  [batchNumber |-> batchNumber, result |-> "COUNTERFEIT",
                   reason |-> "Not found on blockchain"], "verifier", t)
        E2 == AddBlock(E1, [type |-> "verification_failed", batchNumber |-> batchNumber,
                            txHash |-> tx.hash], t)
        E3 == [E2 EXCEPT
                 !.transactions = Append(@, Confirm(tx, GetLatestBlock(E2))),
                 !.scanHistory = Append(@, [batchNumber |-> batchNumber,
                                            result |-> "counterfeit", timestamp |-> t,
                                            reason |-> "Not found on blockchain"])]
    IN  [E |-> Emit(Save(E3), "verificationComplete",
                    [isAuthentic |-> FALSE, checks |-> AbsentChecks.checks,
                     batchNumber |-> batchNumber]),
         threw |-> "none", isAuthentic |-> FALSE, checks |-> AbsentChecks.checks]

\* The verification entry pushed without the scan being counted.
RecordScanUncounted(medicine, isAuthentic, t) ==
    [medicine EXCEPT
       !.verifications = Append(@,
           [timestamp |-> t,
            result |-> IF isAuthentic THEN "authentic" ELSE "suspicious"])]

\* medicine.scanCount++ and the push of the verification entry.
RecordScan(medicine, isAuthentic, t) ==
    [medicine EXCEPT
       !.scanCount = @ + 1,
       !.verifications = Append(@,
           [timestamp |-> t,
            result |-> IF isAuthentic THEN "authentic" ELSE "suspicious"])]

\* The branch of a batch that is in the map, emitting 'verificationComplete'
\* before the alert of a failed verification is created and saved.
VerifyPresentEmittingEarly(E, batchNumber, t) ==
    LET medicine == MapGet(E.medicines, batchNumber)
        verdict == PresentChecks(medicine, batchNumber, t, Len(E.chain))
        checks == verdict.checks
        isAuthentic == verdict.isAuthentic
        scanned == RecordScan(medicine, isAuthentic, t)
        E1 == [E EXCEPT !.medicines = MapSet(@, batchNumber, scanned)]
        tx == NewTransaction("verification",
                  [batchNumber |-> batchNumber, medicineName |-> medicine.medicineName,
                   result |-> IF isAuthentic THEN "AUTHENTIC" ELSE "SUSPICIOUS"],
                  "verifier", t)
        E2 == AddBlock(E1, [type |-> IF isAuthentic THEN "verification_passed"
                                     ELSE "verification_failed",
                            batchNumber |-> batchNumber, txHash |-> tx.hash], t)
        E3 == Emit([E2 EXCEPT
                      !.transactions = Append(@, Confirm(tx, GetLatestBlock(E2))),
                      !.scanHistory = Append(@, [batchNumber |-> batchNumber,
                                                 medicineName |-> medicine.medicineName,
                                                 result |-> IF isAuthentic THEN "authentic"
                                                            ELSE "counterfeit",
                                                 timestamp |-> t])],
                   "verificationComplete",
                   [isAuthentic |-> isAuthentic, checks |-> checks,
                    medicine |-> scanned, batchNumber |-> batchNumber])
        E4 == IF isAuthentic THEN E3
              ELSE CreateAlert(E3, batchNumber, "Verification checks failed", t)
    IN  [E |-> Save(E4), threw |-> "none", isAuthentic |-> isAuthentic, checks |-> checks]

\* verifyMedicine, the branch of a batch that is in the map.
VerifyPresent(E, batchNumber, t) ==
    LET medicine == MapGet(E.medicines, batchNumber)
        verdict == PresentChecks(medicine, batchNumber, t, Len(E.chain))
        checks == verdict.checks
        isAuthentic == verdict.isAuthentic
        scanned == RecordScan(medicine, isAuthentic, t)
        E1 == [E EXCEPT !.medicines = MapSet(@, batchNumber, scanned)]
        tx == NewTransaction("verification",
                  [batchNumber |-> batchNumber, medicineName |-> medicine.medicineName,
                   result |-> IF isAuthentic THEN "AUTHENTIC" ELSE "SUSPICIOUS"],
                  "verifier", t)
        E2 == AddBlock(E1, [type |-> IF isAuthentic THEN "verification_passed"
                                     ELSE "verification_failed",
                            batchNumber |-> batchNumber, txHash |-> tx.hash], t)
        E3 == [E2 EXCEPT
                 !.transactions = Append(@, Confirm(tx, GetLatestBlock(E2))),
                 !.scanHistory = Append(@, [batchNumber |-> batchNumber,
                                            medicineName |-> medicine.medicineName,
                                            result |-> IF isAuthentic THEN "authentic"
                                                       ELSE "counterfeit",
                                            timestamp |-> t])]
        E4 == IF isAuthentic THEN E3
              ELSE CreateAlert(E3, batchNumber, "Verification checks failed", t)
    IN  [E |-> Emit(Save(E4), "verificationComplete",
                    [isAuthentic |-> isAuthentic, checks |-> checks,
                     medicine |-> scanned, batchNumber |-> batchNumber]),
         threw |-> "none", isAuthentic |-> isAuthentic, checks |-> checks]

\* verifyMedicine(batchNumber)
VerifyMedicine(E, batchNumber, t) ==
    IF MapHas(E.medicines, batchNumber) THEN VerifyPresent(E, batchNumber, t)
    ELSE VerifyAbsent(E, batchNumber, t)

\* new Map(entries): the entries are set one after the other, so that of two
\* entries with one key the later value stays, at the place of the earlier.
RECURSIVE NewMap(_)
NewMap(entries) ==
    IF entries = <<>> THEN <<>>
    ELSE LET entry == entries[Len(entries)]
         IN  MapSet(NewMap(SubSeq(entries, 1, Len(entries) - 1)), entry[1], entry[2])

\* initialize() that takes everything from the saved document but the
\* medicine map.
InitializeWithoutMap(E, t) ==
    LET loaded == IF E.storage = <<>> THEN CreateGenesisBlock(E, t)
                  ELSE [chain |-> E.storage[1].chain,
                        medicines |-> <<>>,
                        transactions |-> E.storage[1].transactions,
                        alerts |-> E.storage[1].alerts,
                        scanHistory |-> E.storage[1].scanHistory,
                        storage |-> E.storage, notified |-> E.notified]
    IN  IF Len(loaded.chain) = 0 THEN CreateGenesisBlock(loaded, t) ELSE loaded

\* What localStorage holds under 'medichain_data': nothing (<<>>) or one
\* item.  An item is the document save() wrote, or stands for a text of
\* another make: one JSON.parse throws on (the field unparsable), a document
\* with keys missing, or one whose medicines value new Map() throws on, not
\* being an iterable of entries (the field medicinesNotIterable in place of
\* medicines).
Unparsable(item) == "unparsable" \in DOMAIN item
NotIterable(data) == "medicinesNotIterable" \in DOMAIN data

\* data[key] || []
OrEmpty(data, key) == IF key \in DOMAIN data THEN data[key] ELSE <<>>

\* initialize(): loads the saved document field by field, creates the
\* genesis block when there is no item, in the catch of a throw of
\* JSON.parse or new Map (what was assigned before the throw stays), and
\* when the chain is empty after that; then emits 'initialized'.
Initialize(E, t) ==
    LET data == E.storage[1]
        E1 == [E EXCEPT !.chain = OrEmpty(data, "chain")]
        loaded == IF E.storage = <<>> THEN CreateGenesisBlock(E, t)
                  ELSE IF Unparsable(data) THEN CreateGenesisBlock(E, t)
                  ELSE IF NotIterable(data) THEN CreateGenesisBlock(E1, t)
                  ELSE [E1 EXCEPT
                          !.medicines = NewMap(OrEmpty(data, "medicines")),
                          !.transactions = OrEmpty(data, "transactions"),
                          !.alerts = OrEmpty(data, "alerts"),
                          !.scanHistory = OrEmpty(data, "scanHistory")]
        ready == IF Len(loaded.chain) = 0 THEN CreateGenesisBlock(loaded, t) ELSE loaded
    IN  Emit(ready, "initialized", GetStats(ready))

----------------------------------------------------------------------------
(* The JS engine as a state machine *)

NoCall == [op |-> "none", batchNumber |-> "", medicineName |-> "", time |-> 0,
           pre |-> Snapshot([chain |-> <<>>, medicines |-> <<>>, transactions |-> <<>>,
                             alerts |-> <<>>, scanHistory |-> <<>>]),
           threw |-> "none", isAuthentic |-> FALSE, checks |-> <<>>,
           emitted |-> <<>>]

\* The call just made: its name and arguments, the clock, the engine before
\* it, its outcome R and what its listeners were called with.
Call(op, batchNumber, medicineName, R) ==
    [op |-> op, batchNumber |-> batchNumber, medicineName |-> medicineName,
     time |-> now, pre |-> Snapshot(Engine),
     threw |-> R.threw, isAuthentic |-> R.isAuthentic, checks |-> R.checks,
     emitted |-> R.E.notified]

\* The engine's fields become those of E.
Becomes(E) ==
    /\ chain' = E.chain
    /\ medicines' = E.medicines
    /\ transactions' = E.transactions
    /\ alerts' = E.alerts
    /\ scanHistory' = E.scanHistory
    /\ storage' = E.storage

\* A slot with no call in it, and the engine with no call in flight.
NoTask == [pc |-> "free"]
NoCalls == [s \in Slots |-> NoTask]

JsInit ==
    /\ chain = <<>>
    /\ medicines = <<>>
    /\ transactions = <<>>
    /\ alerts = <<>>
    /\ scanHistory = <<>>
    /\ storage = <<>>
    /\ now = 0
    /\ last = NoCall
    /\ calls = NoCalls

\* The caller's medicineData objects (the arguments of the contract's
\* registerMedicine); the two dates are kept as time values.
MedicineData(ids) ==
    [batchNumber : ids, medicineName : MedicineNames,
     manufacturerId : {"MFG-1"}, manufacturerName : {"Acme Pharma"},
     mfgDate : {0}, expiryDate : ExpiryDates]

Ready == Len(chain) > 0 /\ Len(chain) < MaxBlocks

JsInitialize ==
    LET R == Returned(Initialize(Engine, now))
    IN  /\ Len(chain) = 0
        /\ Becomes(R.E)
        /\ last' = Call("initialize", "", "", R)
        /\ UNCHANGED <<now, sol, solLast, calls>>

JsRegister ==
    \E medicineData \in MedicineData(BatchIds) :
        LET R == RegisterMedicine(Engine, medicineData, now)
        IN  /\ Ready
            /\ Becomes(R.E)
            /\ last' = Call("registerMedicine", medicineData.batchNumber,
                            medicineData.medicineName, R)
            /\ UNCHANGED <<now, sol, solLast, calls>>

JsVerify ==
    \E batchNumber \in BatchIds :
        LET R == VerifyMedicine(Engine, batchNumber, now)
        IN  /\ Ready
            /\ Becomes(R.E)
            /\ last' = Call("verifyMedicine", batchNumber, "", R)
            /\ UNCHANGED <<now, sol, solLast, calls>>

JsTransfer ==
    \E batchNumber \in BatchIds, stage \in Stages :
        LET R == TransferMedicine(Engine, batchNumber, stage, "Carrier", "Depot", now)
        IN  /\ Ready
            /\ Becomes(R.E)
            /\ last' = Call("transferMedicine", batchNumber, "", R)
            /\ UNCHANGED <<now, sol, solLast, calls>>

JsCreateAlert ==
    \E batchNumber \in BatchIds :
        LET R == Returned(CreateAlert(Engine, batchNumber, "Suspected counterfeit", now))
        IN  /\ Ready
            /\ Becomes(R.E)
            /\ last' = Call("createAlert", batchNumber, "", R)
            /\ UNCHANGED <<now, sol, solLast, calls>>

\* Time passes between calls.
Tick ==
    /\ now < MaxTime
    /\ now' = now + 1
    /\ UNCHANGED <<jsVars, sol, solLast>>

----------------------------------------------------------------------------
(* The contract MediChain.sol *)

\* A Medicine struct that was never written: every field has its zero value.
NoMedicine ==
    [id |-> 0, medicineName |-> "", batchNumber |-> "", manufacturerId |-> "",
     manufacturerName |-> "", mfgDate |-> 0, expiryDate |-> 0, medicineType |-> "",
     quantity |-> 0, composition |-> "", shipmentDest |-> "", price |-> 0,
     status |-> "Active", registeredBy |-> "0x0", registeredAt |-> 0, scanCount |-> 0,
     exists |-> FALSE]

\* constructor(), deployed by `deployer` with the mappings over the keys K.
Deployed(deployer, K) ==
    [owner |-> deployer, medicineCount |-> 0, verificationCount |-> 0, alertCount |-> 0,
     medicines |-> [b \in K |-> NoMedicine],
     supplyChain |-> [b \in K |-> <<>>],
     verifications |-> [b \in K |-> <<>>],
     alerts |-> <<>>,    \* alertId -> CounterfeitAlert, the ids written so far
     authorizedManufacturers |-> {deployer},
     authorizedDistributors |-> {deployer},
     authorizedShops |-> {deployer},
     allBatchNumbers |-> <<>>]

\* alerts[id] = alert
PutAlert(alertsMap, id, alert) ==
    [k \in DOMAIN alertsMap \cup {id} |-> IF k = id THEN alert ELSE alertsMap[k]]

\* The outcome of a transaction: the storage after it (the storage before it
\* when it reverts), the revert reason, and the values returned.
Mined(S) == [S |-> S, reverted |-> "none", isAuthentic |-> FALSE, details |-> ""]
Reverted(S, reason) == [S |-> S, reverted |-> reason, isAuthentic |-> FALSE, details |-> ""]
Answered(S, isAuthentic, details) ==
    [S |-> S, reverted |-> "none", isAuthentic |-> isAuthentic, details |-> details]

\* modifier onlyOwner
OnlyOwner(S, sender) == sender = S.owner

\* A modifier that lets every sender through.
AnySender(S, sender) == TRUE

\* modifier onlyAuthorizedManufacturer
OnlyAuthorizedManufacturer(S, sender) ==
    sender \in S.authorizedManufacturers \/ sender = S.owner

\* authorizeManufacturer / authorizeDistributor / authorizeShop
AuthorizeManufacturer(S, sender, a) ==
    IF ~OnlyOwner(S, sender)
    THEN Reverted(S, "Only contract owner can perform this action")
    ELSE Mined([S EXCEPT !.authorizedManufacturers = @ \cup {a}])

AuthorizeDistributor(S, sender, a) ==
    IF ~OnlyOwner(S, sender)
    THEN Reverted(S, "Only contract owner can perform this action")
    ELSE Mined([S EXCEPT !.authorizedDistributors = @ \cup {a}])

AuthorizeShop(S, sender, a) ==
    IF ~OnlyOwner(S, sender)
    THEN Reverted(S, "Only contract owner can perform this action")
    ELSE Mined([S EXCEPT !.authorizedShops = @ \cup {a}])

\* The requires of registerMedicine, in their order: the reason of the first
\* that fails, or "none".
SolRegisterRejects(S, sender, medicineData) ==
    IF ~OnlyAuthorizedManufacturer(S, sender) THEN "Not an authorized manufacturer"
    ELSE IF S.medicines[medicineData.batchNumber].exists
         THEN "Batch number already registered"
    ELSE IF medicineData.batchNumber = "" THEN "Batch number cannot be empty"
    ELSE IF medicineData.medicineName = "" THEN "Medicine name cannot be empty"
    ELSE "none"

\* registerMedicine
SolRegisterMedicine(S, sender, medicineData, t) ==
    LET b == medicineData.batchNumber
        rejected == SolRegisterRejects(S, sender, medicineData)
        med == [S.medicines[b] EXCEPT
                  !.id = S.medicineCount + 1,
                  !.medicineName = medicineData.medicineName,
                  !.batchNumber = b,
                  !.manufacturerId = medicineData.manufacturerId,
                  !.manufacturerName = medicineData.manufacturerName,
                  !.mfgDate = medicineData.mfgDate,
                  !.expiryDate = medicineData.expiryDate,
                  !.status = "Active",
                  !.registeredBy = sender,
                  !.registeredAt = t,
                  !.scanCount = 0,
                  !.exists = TRUE]
    IN  IF rejected # "none" THEN Reverted(S, rejected)
        ELSE Mined([S EXCEPT
                 !.medicineCount = @ + 1,
                 !.medicines[b] = med,
                 !.allBatchNumbers = Append(@, b),
                 !.supplyChain[b] = Append(@, [stage |-> "Manufactured",
                                               actor |-> medicineData.manufacturerName,
                                               location |-> "Manufacturing Plant",
                                               timestamp |-> t,
                                               updatedBy |-> sender])])

\* setMedicineDetails without the medicineExists modifier.
SetMedicineDetailsUnchecked(S, b, details) ==
    Mined([S EXCEPT !.medicines[b] =
              [@ EXCEPT !.medicineType = details.medicineType,
                        !.quantity = details.quantity,
                        !.composition = details.composition,
                        !.shipmentDest = details.shipmentDest,
                        !.price = details.price]])

\* setMedicineDetails
SetMedicineDetails(S, b, details) ==
    IF ~S.medicines[b].exists THEN Reverted(S, "Medicine not found on blockchain")
    ELSE Mined([S EXCEPT !.medicines[b] =
                   [@ EXCEPT !.medicineType = details.medicineType,
                             !.quantity = details.quantity,
                             !.composition = details.composition,
                             !.shipmentDest = details.shipmentDest,
                             !.price = details.price]])

VerificationRecord(sender, t, isAuthentic, details) ==
    [verifier |-> sender, timestamp |-> t, isAuthentic |-> isAuthentic, details |-> details]

\* verifyMedicine
SolVerifyMedicine(S, sender, b, t) ==
    LET S1 == [S EXCEPT !.verificationCount = @ + 1]
        S2 == [S1 EXCEPT !.medicines[b].scanCount = @ + 1]
    IN  IF ~S1.medicines[b].exists
        THEN Answered([S1 EXCEPT
                 !.alertCount = @ + 1,
                 !.alerts = PutAlert(@, S1.alertCount + 1,
                                [id |-> S1.alertCount + 1, batchNumber |-> b,
                                 reason |-> "Medicine not found on blockchain",
                                 reportedBy |-> sender, timestamp |-> t,
                                 resolved |-> FALSE]),
                 !.verifications[b] = Append(@,
                     VerificationRecord(sender, t, FALSE, "NOT FOUND on blockchain"))],
                 FALSE, "WARNING: Medicine NOT found on blockchain. Possible counterfeit!")
        ELSE IF S2.medicines[b].status = "Flagged"
        THEN Answered([S2 EXCEPT !.verifications[b] = Append(@,
                          VerificationRecord(sender, t, FALSE,
                                             "Medicine FLAGGED as suspicious"))],
                      FALSE, "WARNING: Medicine has been FLAGGED as suspicious!")
        ELSE IF S2.medicines[b].status = "Sold"
        THEN Answered([S2 EXCEPT !.verifications[b] = Append(@,
                          VerificationRecord(sender, t, FALSE,
                                             "Medicine already marked as SOLD"))],
                      FALSE, "WARNING: Medicine already marked as SOLD. Possible duplicate!")
        ELSE Answered([S2 EXCEPT !.verifications[b] = Append(@,
                          VerificationRecord(sender, t, TRUE,
                                             "All verification checks passed"))],
                      TRUE, "Medicine is AUTHENTIC. All blockchain checks passed.")

\* updateSupplyChain without the medicineExists modifier.
UpdateSupplyChainUnchecked(S, sender, b, stage, actor, location, t) ==
    Mined([S EXCEPT !.supplyChain[b] =
              Append(@, [stage |-> stage, actor |-> actor, location |-> location,
                         timestamp |-> t, updatedBy |-> sender])])

\* updateSupplyChain
UpdateSupplyChain(S, sender, b, stage, actor, location, t) ==
    IF ~S.medicines[b].exists THEN Reverted(S, "Medicine not found on blockchain")
    ELSE Mined([S EXCEPT !.supplyChain[b] =
                   Append(@, [stage |-> stage, actor |-> actor, location |-> location,
                              timestamp |-> t, updatedBy |-> sender])])

\* markAsSold without the medicineExists modifier.
MarkAsSoldUnchecked(S, b) == Mined([S EXCEPT !.medicines[b].status = "Sold"])

\* markAsSold
MarkAsSold(S, b) ==
    IF ~S.medicines[b].exists THEN Reverted(S, "Medicine not found on blockchain")
    ELSE Mined([S EXCEPT !.medicines[b].status = "Sold"])

\* flagMedicine that writes the status without looking at exists and marks
\* the struct as existing.
FlagMedicineCreating(S, sender, b, reason, t) ==
    LET S1 == [S EXCEPT !.medicines[b].status = "Flagged",
                        !.medicines[b].exists = TRUE]
    IN  Mined([S1 EXCEPT
            !.alertCount = @ + 1,
            !.alerts = PutAlert(@, S1.alertCount + 1,
                           [id |-> S1.alertCount + 1, batchNumber |-> b,
                            reason |-> reason, reportedBy |-> sender,
                            timestamp |-> t, resolved |-> FALSE])])

\* flagMedicine that stores the alert and leaves alertCount as it is.
FlagMedicineUncounted(S, sender, b, reason, t) ==
    LET S1 == IF S.medicines[b].exists
              THEN [S EXCEPT !.medicines[b].status = "Flagged"] ELSE S
    IN  Mined([S1 EXCEPT
            !.alerts = PutAlert(@, S1.alertCount + 1,
                           [id |-> S1.alertCount + 1, batchNumber |-> b,
                            reason |-> reason, reportedBy |-> sender,
                            timestamp |-> t, resolved |-> FALSE])])

\* flagMedicine that marks the batch Expired instead of Flagged.
FlagMedicineExpiring(S, sender, b, reason, t) ==
    LET S1 == IF S.medicines[b].exists
              THEN [S EXCEPT !.medicines[b].status = "Expired"] ELSE S
    IN  Mined([S1 EXCEPT
            !.alertCount = @ + 1,
            !.alerts = PutAlert(@, S1.alertCount + 1,
                           [id |-> S1.alertCount + 1, batchNumber |-> b,
                            reason |-> reason, reportedBy |-> sender,
                            timestamp |-> t, resolved |-> FALSE])])

\* flagMedicine
FlagMedicine(S, sender, b, reason, t) ==
    LET S1 == IF S.medicines[b].exists
              THEN [S EXCEPT !.medicines[b].status = "Flagged"] ELSE S
    IN  Mined([S1 EXCEPT
            !.alertCount = @ + 1,
            !.alerts = PutAlert(@, S1.alertCount + 1,
                           [id |-> S1.alertCount + 1, batchNumber |-> b,
                            reason |-> reason, reportedBy |-> sender,
                            timestamp |-> t, resolved |-> FALSE])])

----------------------------------------------------------------------------
(* The contract as a state machine *)

NoSolCall == [op |-> "none", batchNumber |-> "", medicineName |-> "", sender |-> "0x0",
              time |-> 0, pre |-> Deployed("owner", {}),
              reverted |-> "none", isAuthentic |-> FALSE, details |-> ""]

\* The transaction just sent: its function and arguments, the storage before
\* it, and its outcome R.
SolCall(op, batchNumber, medicineName, sender, R) ==
    [op |-> op, batchNumber |-> batchNumber, medicineName |-> medicineName,
     sender |-> sender, time |-> now, pre |-> sol,
     reverted |-> R.reverted, isAuthentic |-> R.isAuthentic, details |-> R.details]

\* Records, checkpoints, verification records and alerts stored.
RECURSIVE SumLen(_, _)
SumLen(f, K) ==
    IF K = {} THEN 0
    ELSE LET k == CHOOSE x \in K : TRUE IN Len(f[k]) + SumLen(f, K \ {k})

\* The size of the storage: the alerts, checkpoints and verification records
\* stored, the authorizations granted, and the records whose status or
\* details were set.
SolEntries(S) ==
    S.alertCount + SumLen(S.supplyChain, DOMAIN S.supplyChain)
                 + SumLen(S.verifications, DOMAIN S.verifications)
                 + Cardinality(S.authorizedManufacturers \ {S.owner})
                 + Cardinality(S.authorizedDistributors \ {S.owner})
                 + Cardinality(S.authorizedShops \ {S.owner})
                 + Cardinality({b \in DOMAIN S.medicines :
                                   S.medicines[b].status # "Active"})
                 + Cardinality({b \in DOMAIN S.medicines :
                                   S.medicines[b].medicineType # ""})

SolReady == SolEntries(sol) < MaxEntries

\* The arguments of setMedicineDetails.
MedicineDetails ==
    [medicineType : {"Tablet"}, quantity : {100}, composition : {"Amoxicillin 500mg"},
     shipmentDest : {"City Pharmacy"}, price : {5}]

SolDeploy(K) ==
    /\ sol = Deployed("owner", K)
    /\ solLast = NoSolCall

SolAuthorize ==
    \E sender \in Addresses, a \in Addresses :
        \/ LET R == AuthorizeManufacturer(sol, sender, a)
           IN  /\ SolReady
               /\ sol' = R.S
               /\ solLast' = SolCall("authorizeManufacturer", "", "", sender, R)
               /\ UNCHANGED <<jsVars, now>>
        \/ LET R == AuthorizeDistributor(sol, sender, a)
           IN  /\ SolReady
               /\ sol' = R.S
               /\ solLast' = SolCall("authorizeDistributor", "", "", sender, R)
               /\ UNCHANGED <<jsVars, now>>
        \/ LET R == AuthorizeShop(sol, sender, a)
           IN  /\ SolReady
               /\ sol' = R.S
               /\ solLast' = SolCall("authorizeShop", "", "", sender, R)
               /\ UNCHANGED <<jsVars, now>>

SolRegister ==
    \E sender \in Addresses, medicineData \in MedicineData(SolBatchIds) :
        LET R == SolRegisterMedicine(sol, sender, medicineData, now)
        IN  /\ SolReady
            /\ sol' = R.S
            /\ solLast' = SolCall("registerMedicine", medicineData.batchNumber,
                                  medicineData.medicineName, sender, R)
            /\ UNCHANGED <<jsVars, now>>

SolSetDetails ==
    \E sender \in Callers, b \in SolBatchIds, details \in MedicineDetails :
        LET R == SetMedicineDetails(sol, b, details)
        IN  /\ SolReady
            /\ sol' = R.S
            /\ solLast' = SolCall("setMedicineDetails", b, "", sender, R)
            /\ UNCHANGED <<jsVars, now>>

SolVerify ==
    \E sender \in Callers, b \in SolBatchIds :
        LET R == SolVerifyMedicine(sol, sender, b, now)
        IN  /\ SolReady
            /\ sol' = R.S
            /\ solLast' = SolCall("verifyMedicine", b, "", sender, R)
            /\ UNCHANGED <<jsVars, now>>

SolUpdate ==
    \E sender \in Callers, b \in SolBatchIds, stage \in Stages :
        LET R == UpdateSupplyChain(sol, sender, b, stage, "Carrier", "Depot", now)
        IN  /\ SolReady
            /\ sol' = R.S
            /\ solLast' = SolCall("updateSupplyChain", b, "", sender, R)
            /\ UNCHANGED <<jsVars, now>>

SolMarkSold ==
    \E sender \in Callers, b \in SolBatchIds :
        LET R == MarkAsSold(sol, b)
        IN  /\ SolReady
            /\ sol' = R.S
            /\ solLast' = SolCall("markAsSold", b, "", sender, R)
            /\ UNCHANGED <<jsVars, now>>

SolFlag ==
    \E sender \in Callers, b \in SolBatchIds :
        LET R == FlagMedicine(sol, sender, b, "Suspected counterfeit", now)
        IN  /\ SolReady
            /\ sol' = R.S
            /\ solLast' = SolCall("flagMedicine", b, "", sender, R)
            /\ UNCHANGED <<jsVars, now>>

InitContract == JsInit /\ SolDeploy(SolBatchIds)

NextContract ==
    \/ SolAuthorize
    \/ SolRegister
    \/ SolSetDetails
    \/ SolVerify
    \/ SolUpdate
    \/ SolMarkSold
    \/ SolFlag

SpecContract == InitContract /\ [][NextContract]_vars

----------------------------------------------------------------------------
(* The JS engine alone *)

\* No contract is deployed.
Idle == sol = 0 /\ solLast = 0

JsNext ==
    \/ JsInitialize
    \/ JsRegister
    \/ JsVerify
    \/ JsTransfer
    \/ JsCreateAlert

Init == JsInit /\ Idle

Next == JsNext \/ Tick

Spec == Init /\ [][Next]_vars

----------------------------------------------------------------------------
(* Both implementations, given the same calls *)

\* register: registerMedicine(medicineData) on the engine and on the contract.
DualRegister ==
    \E sender \in Addresses, medicineData \in MedicineData(BatchIds) :
        LET R == RegisterMedicine(Engine, medicineData, now)
            C == SolRegisterMedicine(sol, sender, medicineData, now)
        IN  /\ Ready
            /\ Becomes(R.E)
            /\ last' = Call("registerMedicine", medicineData.batchNumber,
                            medicineData.medicineName, R)
            /\ sol' = C.S
            /\ solLast' = SolCall("registerMedicine", medicineData.batchNumber,
                                  medicineData.medicineName, sender, C)
            /\ UNCHANGED <<now, calls>>

\* verify: verifyMedicine(batchNumber) on both.
DualVerify ==
    \E sender \in Callers, batchNumber \in BatchIds :
        LET R == VerifyMedicine(Engine, batchNumber, now)
            C == SolVerifyMedicine(sol, sender, batchNumber, now)
        IN  /\ Ready
            /\ Becomes(R.E)
            /\ last' = Call("verifyMedicine", batchNumber, "", R)
            /\ sol' = C.S
            /\ solLast' = SolCall("verifyMedicine", batchNumber, "", sender, C)
            /\ UNCHANGED <<now, calls>>

\* transfer: transferMedicine on the engine, updateSupplyChain on the contract.
DualTransfer ==
    \E sender \in Callers, batchNumber \in BatchIds, stage \in Stages :
        LET R == TransferMedicine(Engine, batchNumber, stage, "Carrier", "Depot", now)
            C == UpdateSupplyChain(sol, sender, batchNumber, stage, "Carrier", "Depot", now)
        IN  /\ Ready
            /\ Becomes(R.E)
            /\ last' = Call("transferMedicine", batchNumber, "", R)
            /\ sol' = C.S
            /\ solLast' = SolCall("updateSupplyChain", batchNumber, "", sender, C)
            /\ UNCHANGED <<now, calls>>

\* markAsSold and flagMedicine, which only the contract has: the engine is
\* not called.
DualMarkSold ==
    \E sender \in Callers, b \in BatchIds :
        LET C == MarkAsSold(sol, b)
        IN  /\ SolReady
            /\ sol' = C.S
            /\ solLast' = SolCall("markAsSold", b, "", sender, C)
            /\ UNCHANGED <<jsVars, now>>

DualFlag ==
    \E sender \in Callers, b \in BatchIds :
        LET C == FlagMedicine(sol, sender, b, "Suspected counterfeit", now)
        IN  /\ SolReady
            /\ sol' = C.S
            /\ solLast' = SolCall("flagMedicine", b, "", sender, C)
            /\ UNCHANGED <<jsVars, now>>

InitDual == JsInit /\ SolDeploy(BatchIds)

NextDual ==
    \/ JsInitialize
    \/ DualRegister
    \/ DualVerify
    \/ DualTransfer
    \/ Tick

SpecDual == InitDual /\ [][NextDual]_vars

\* Registration and verification on both, with the contract's status
\* transactions in between; the clock stands still.
NextStatus ==
    \/ JsInitialize
    \/ DualRegister
    \/ DualVerify
    \/ DualMarkSold
    \/ DualFlag

SpecStatus == InitDual /\ [][NextStatus]_vars

\* A counterfeit report as the page sends it: flagMedicine on the contract
\* and createAlert on the engine, with one reason.
DualReport ==
    \E sender \in Callers, batchNumber \in BatchIds :
        LET R == Returned(CreateAlert(Engine, batchNumber,
                                      "Reported as counterfeit by verifier", now))
            C == FlagMedicine(sol, sender, batchNumber,
                              "Reported as counterfeit by verifier", now)
        IN  /\ Ready
            /\ Becomes(R.E)
            /\ last' = Call("createAlert", batchNumber, "", R)
            /\ sol' = C.S
            /\ solLast' = SolCall("flagMedicine", batchNumber, "", sender, C)
            /\ UNCHANGED <<now, calls>>

\* Every operation that the two implementations share, the report among
\* them, and the contract's markAsSold; the clock stands still.
NextAlerts ==
    \/ JsInitialize
    \/ DualRegister
    \/ DualVerify
    \/ DualTransfer
    \/ DualReport
    \/ DualMarkSold

SpecAlerts == InitDual /\ [][NextAlerts]_vars

----------------------------------------------------------------------------
(* The JS engine started on a saved document *)

\* The statuses a record can carry (blockchain.js line 161).
Statuses == {"active", "sold", "expired", "flagged"}

\* Records as initialize() takes them from the saved document, which it does
\* not validate: any status, any expiry date, any checkpoint list, and a
\* confirming block index that may be missing or beyond the chain.
LoadedMedicines ==
    [batchNumber : {"B-001"}, medicineName : {"Amoxicillin"},
     manufacturerId : {"MFG-1"}, manufacturerName : {"Acme Pharma"},
     mfgDate : {0}, expiryDate : ExpiryDates \cup {MaxTime + 1},
     registeredAt : {0}, status : Statuses, scanCount : {0},
     supplyChain : {<<>>, <<[stage |-> "Manufactured", actor |-> "Acme Pharma",
                             location |-> "Manufacturing Plant", timestamp |-> 0,
                             txHash |-> EmptyHash]>>},
     verifications : {<<>>},
     blockHash : {EmptyHash},
     blockNumber : {Undefined, 0, MaxBlocks}]

\* The documents in storage: a chain holding a genesis block, and a medicine
\* map that is empty or holds one record.
SavedDocuments ==
    LET genesis == CreateGenesisBlock([chain |-> <<>>, medicines |-> <<>>,
                       transactions |-> <<>>, alerts |-> <<>>, scanHistory |-> <<>>,
                       storage |-> <<>>, notified |-> <<>>], 0).chain
    IN  [chain : {genesis},
         medicines : {<<>>} \cup {<< <<m.batchNumber, m>> >> : m \in LoadedMedicines},
         transactions : {<<>>}, alerts : {<<>>}, scanHistory : {<<>>}]

InitLoaded ==
    /\ chain = <<>>
    /\ medicines = <<>>
    /\ transactions = <<>>
    /\ alerts = <<>>
    /\ scanHistory = <<>>
    /\ storage \in {<<d>> : d \in SavedDocuments}
    /\ now = 0
    /\ last = NoCall
    /\ calls = NoCalls
    /\ Idle

NextLoaded ==
    \/ JsInitialize
    \/ JsVerify
    \/ Tick

SpecLoaded == InitLoaded /\ [][NextLoaded]_vars

----------------------------------------------------------------------------
(* The page is loaded again: the engine writes its state out and a new     *)
(* engine reads it back.                                                   *)

\* new MediChainBlockchain() in a browser whose localStorage holds `store`.
Constructed(store) ==
    [chain |-> <<>>, medicines |-> <<>>, transactions |-> <<>>, alerts |-> <<>>,
     scanHistory |-> <<>>, storage |-> store, notified |-> <<>>]

\* save() on the engine, then initialize() on a new one, which takes the
\* place of the first.
JsReload ==
    LET R == Returned(Initialize(Constructed(Save(Engine).storage), now))
    IN  /\ Len(chain) > 0
        /\ Becomes(R.E)
        /\ last' = Call("reload", "", "", R)
        /\ UNCHANGED <<now, sol, solLast, calls>>

NextReload == JsNext \/ JsReload \/ Tick

SpecReload == Init /\ [][NextReload]_vars

----------------------------------------------------------------------------
(* The queries, asked of an engine with a history of any length up to      *)
(* MaxHistory alerts, so that there are more transactions than getStats    *)
(* lists.                                                                  *)

\* The characters of the texts that are searched, and String.toLowerCase.
Characters ==
    [s \in {"", "B-001", "Amoxicillin", "Acme Pharma", "amox", "ACME", "zzz"} |->
        CASE s = "" -> <<>>
          [] s = "B-001" -> <<"B", "-", "0", "0", "1">>
          [] s = "Amoxicillin" -> <<"A", "m", "o", "x", "i", "c", "i", "l", "l", "i", "n">>
          [] s = "Acme Pharma" -> <<"A", "c", "m", "e", " ", "P", "h", "a", "r", "m", "a">>
          [] s = "amox" -> <<"a", "m", "o", "x">>
          [] s = "ACME" -> <<"A", "C", "M", "E">>
          [] s = "zzz" -> <<"z", "z", "z">>]

LowerOf(c) ==
    CASE c = "A" -> "a" [] c = "B" -> "b" [] c = "C" -> "c" [] c = "E" -> "e"
      [] c = "M" -> "m" [] c = "P" -> "p" [] OTHER -> c

ToLowerCase(s) == [i \in 1..Len(Characters[s]) |-> LowerOf(Characters[s][i])]

\* String.includes on lists of characters.
Includes(text, q) ==
    \E i \in 0..Len(text) : i + Len(q) <= Len(text) /\ SubSeq(text, i + 1, i + Len(q)) = q

\* getAllMedicines(): each entry's fields over its key as batchNumber.
GetAllMedicines(E) ==
    [i \in 1..Len(E.medicines) |-> E.medicines[i][2] @@ [batchNumber |-> E.medicines[i][1]]]

\* getMedicine(batchNumber)
GetMedicine(E, batchNumber) ==
    IF MapHas(E.medicines, batchNumber) THEN MapGet(E.medicines, batchNumber) ELSE Null

\* search(query)
Search(E, query) ==
    LET q == ToLowerCase(query)
        Matches(medicine) ==
            \/ Includes(ToLowerCase(medicine.batchNumber), q)
            \/ Includes(ToLowerCase(medicine.medicineName), q)
            \/ /\ medicine.manufacturerName # ""
               /\ Includes(ToLowerCase(medicine.manufacturerName), q)
    IN  SelectSeq(GetAllMedicines(E), Matches)

\* generateQRData(batchNumber): the fields of the JSON text; hash is the
\* first 16 characters of the block hash.
GenerateQRData(E, batchNumber) ==
    IF ~MapHas(E.medicines, batchNumber) THEN Null
    ELSE LET medicine == MapGet(E.medicines, batchNumber)
         IN  [system |-> "MediChain", version |-> "1.0", batch |-> batchNumber,
              name |-> medicine.medicineName, mfg |-> medicine.manufacturerId,
              block |-> medicine.blockNumber,
              hash |-> [substring |-> 16, of |-> medicine.blockHash]]

\* The longest history the queries are asked of.
MaxHistory == 12

\* The engine after initialize() and n createAlert calls.
RECURSIVE AfterAlerts(_)
AfterAlerts(n) ==
    IF n = 0 THEN [Initialize(Constructed(<<>>), 0) EXCEPT !.notified = <<>>]
    ELSE [CreateAlert(AfterAlerts(n - 1), "B-001", "Suspected counterfeit", 0)
            EXCEPT !.notified = <<>>]

InitQueries ==
    /\ \E E \in {Constructed(<<>>)} \cup {AfterAlerts(n) : n \in 0..MaxHistory} :
          /\ chain = E.chain
          /\ medicines = E.medicines
          /\ transactions = E.transactions
          /\ alerts = E.alerts
          /\ scanHistory = E.scanHistory
          /\ storage = E.storage
    /\ now = 0
    /\ last = NoCall
    /\ calls = NoCalls
    /\ Idle

SearchQueries == {"", "B-001", "amox", "ACME", "zzz"}

\* The answer of a query: what it returned, with the store as it is.
Answer(op, argument, value) ==
    [value |-> value, stored |-> storage] @@ Call(op, argument, "", Returned(Engine))

\* The queries assign to nothing of the engine.
JsGetStats ==
    /\ last' = Answer("getStats", "", GetStats(Engine))
    /\ UNCHANGED <<chain, medicines, transactions, alerts, scanHistory, storage,
                   calls, now, sol, solLast>>

JsGetAllMedicines ==
    /\ last' = Answer("getAllMedicines", "", GetAllMedicines(Engine))
    /\ UNCHANGED <<chain, medicines, transactions, alerts, scanHistory, storage,
                   calls, now, sol, solLast>>

JsGetMedicine ==
    \E batchNumber \in BatchIds :
        /\ last' = Answer("getMedicine", batchNumber, GetMedicine(Engine, batchNumber))
        /\ UNCHANGED <<chain, medicines, transactions, alerts, scanHistory, storage,
                       calls, now, sol, solLast>>

JsSearch ==
    \E query \in SearchQueries :
        /\ last' = Answer("search", query, Search(Engine, query))
        /\ UNCHANGED <<chain, medicines, transactions, alerts, scanHistory, storage,
                       calls, now, sol, solLast>>

JsGenerateQRData ==
    \E batchNumber \in BatchIds :
        /\ last' = Answer("generateQRData", batchNumber,
                          GenerateQRData(Engine, batchNumber))
        /\ UNCHANGED <<chain, medicines, transactions, alerts, scanHistory, storage,
                       calls, now, sol, solLast>>

JsIsChainValid ==
    /\ last' = Answer("isChainValid", "", IsChainValid(Engine))
    /\ UNCHANGED <<chain, medicines, transactions, alerts, scanHistory, storage,
                   calls, now, sol, solLast>>

NextQueries ==
    \/ JsNext
    \/ JsGetStats
    \/ JsGetAllMedicines
    \/ JsGetMedicine
    \/ JsSearch
    \/ JsGenerateQRData
    \/ JsIsChainValid

SpecQueries == InitQueries /\ [][NextQueries]_vars

----------------------------------------------------------------------------
(* initialize() over whatever the store may hold: no item, a text that is  *)
(* not JSON, and documents made from one the engine saved by dropping keys, *)
(* emptying or beheading the chain, or putting a value that is not a list  *)
(* of entries under medicines.                                             *)

\* The document in the store after initialize() and one registerMedicine.
SavedByEngine ==
    LET medicineData == [batchNumber |-> "B-001", medicineName |-> "Amoxicillin",
                         manufacturerId |-> "MFG-1", manufacturerName |-> "Acme Pharma",
                         mfgDate |-> 0, expiryDate |-> 1]
    IN  RegisterMedicine(Initialize(Constructed(<<>>), 0), medicineData, 0).E.storage[1]

StoredKeys == {"chain", "medicines", "transactions", "alerts", "scanHistory"}

\* The document with only some of its keys.
Keeping(doc, keys) == [k \in keys |-> doc[k]]

StoredItems ==
    {[unparsable |-> TRUE]}
    \cup {Keeping(SavedByEngine, keys) : keys \in SUBSET StoredKeys}
    \cup {[SavedByEngine EXCEPT !.chain = c] : c \in {<<>>, Tail(SavedByEngine.chain)}}
    \cup {Keeping(SavedByEngine, keys) @@ [medicinesNotIterable |-> TRUE] :
             keys \in SUBSET (StoredKeys \ {"medicines"})}

InitStored ==
    /\ chain = <<>>
    /\ medicines = <<>>
    /\ transactions = <<>>
    /\ alerts = <<>>
    /\ scanHistory = <<>>
    /\ storage \in {<<>>} \cup {<<item>> : item \in StoredItems}
    /\ now = 0
    /\ last = NoCall
    /\ calls = NoCalls
    /\ Idle

NextStored == JsNext

SpecStored == InitStored /\ [][NextStored]_vars

----------------------------------------------------------------------------
(* One batch on its way through the supply chain: the engine registers it, *)
(* transfers it from stage to stage and verifies it, over a longer chain.  *)

\* The run stops growing the chain at this many blocks.
MaxSupplyBlocks == 5

SupplyBatchIds == {"B-001"}

SupplyReady == Len(chain) > 0 /\ Len(chain) < MaxSupplyBlocks

SupplyRegister ==
    \E medicineData \in {d \in MedicineData(SupplyBatchIds) : d.medicineName # ""} :
        LET R == RegisterMedicine(Engine, medicineData, now)
        IN  /\ SupplyReady
            /\ Becomes(R.E)
            /\ last' = Call("registerMedicine", medicineData.batchNumber,
                            medicineData.medicineName, R)
            /\ UNCHANGED <<now, sol, solLast, calls>>

SupplyTransfer ==
    \E batchNumber \in SupplyBatchIds, stage \in Stages :
        LET R == TransferMedicine(Engine, batchNumber, stage, "Carrier", "Depot", now)
        IN  /\ SupplyReady
            /\ Becomes(R.E)
            /\ last' = Call("transferMedicine", batchNumber, "", R)
            /\ UNCHANGED <<now, sol, solLast, calls>>

SupplyVerify ==
    \E batchNumber \in SupplyBatchIds :
        LET R == VerifyMedicine(Engine, batchNumber, now)
        IN  /\ SupplyReady
            /\ Becomes(R.E)
            /\ last' = Call("verifyMedicine", batchNumber, "", R)
            /\ UNCHANGED <<now, sol, solLast, calls>>

NextSupply ==
    \/ JsInitialize
    \/ SupplyRegister
    \/ SupplyTransfer
    \/ SupplyVerify
    \/ Tick

SpecSupply == Init /\ [][NextSupply]_vars

----------------------------------------------------------------------------
(* The chain is edited from outside the operations: this.chain is a public *)
(* field and initialize() takes the saved chain as it finds it.  One field  *)
(* of one block is given another value; the hash is not computed again.     *)

BlockFields == {"index", "timestamp", "data", "previousHash", "hash", "nonce"}

\* The value written over a field: one that the field does not have.
Forged(block, field) ==
    CASE field = "index" -> block.index + 1
      [] field = "timestamp" -> block.timestamp + 1
      [] field = "nonce" -> block.nonce + 1
      [] field = "data" -> [type |-> "forged", was |-> block.data]
      [] field = "previousHash" -> [zeros |-> 0, body |-> <<"forged", block.previousHash>>]
      [] field = "hash" -> [zeros |-> 0, body |-> <<"forged", block.hash>>]

Edited(block, field) ==
    CASE field = "index" -> [block EXCEPT !.index = Forged(block, field)]
      [] field = "timestamp" -> [block EXCEPT !.timestamp = Forged(block, field)]
      [] field = "nonce" -> [block EXCEPT !.nonce = Forged(block, field)]
      [] field = "data" -> [block EXCEPT !.data = Forged(block, field)]
      [] field = "previousHash" -> [block EXCEPT !.previousHash = Forged(block, field)]
      [] field = "hash" -> [block EXCEPT !.hash = Forged(block, field)]

\* Every block is as the engine made it: it has its position for an index,
\* the digest of its fields for a hash and, after the first, the hash of the
\* block before it for a previous hash.
Untouched ==
    \A i \in 1..Len(chain) :
        /\ chain[i].index = i - 1
        /\ chain[i].hash = CalculateHash(chain[i])
        /\ i > 1 => chain[i].previousHash = chain[i - 1].hash

\* A chain that the engine built has one field of one block overwritten.
Tamper ==
    \E i \in 1..Len(chain), field \in BlockFields :
        /\ Untouched
        /\ chain' = [chain EXCEPT ![i] = Edited(chain[i], field)]
        /\ last' = Call("tamper", "", field, Returned(Engine))
        /\ UNCHANGED <<medicines, transactions, alerts, scanHistory, storage,
                       now, sol, solLast, calls>>

\* The clock stands still.
NextTamper == JsNext \/ Tamper

SpecTamper == Init /\ [][NextTamper]_vars

----------------------------------------------------------------------------
(* The JS engine step by step.  Every operation is an async function: it   *)
(* runs to its next await and is suspended there while other calls run.    *)
(* A call is suspended for real at the digests (tx.generateHash and the    *)
(* calculateHash of mineBlock); at the await of addBlock or createAlert it *)
(* goes on as soon as the callee returns, after the listeners of the       *)
(* callee's emit have run.                                                 *)

\* The fields a transaction and a block local have before they are assigned.
NoTx == [hash |-> EmptyHash]
NoBlock == [index |-> Undefined, hash |-> EmptyHash]
NoRecord == [medicineName |-> ""]

\* The frame of a call that has just been made.
\*   pc      where it is suspended: "hash" in tx.generateHash, "mine" in
\*           mineBlock, "store" after addBlock returned, "resume" after
\*           createAlert returned to verifyMedicine
\*   fn      the function whose body is running, caller the one awaiting it
\*   alone   no other call was in flight during this one
NewCall(op, fn, batchNumber, medicineName, E, t) ==
    [pc |-> "hash", op |-> op, fn |-> fn, caller |-> "none",
     batchNumber |-> batchNumber, medicineName |-> medicineName,
     time |-> t, pre |-> Snapshot(E), alone |-> TRUE,
     tx |-> NoTx, data |-> [type |-> "none"], newBlock |-> NoBlock,
     block |-> NoBlock, medicine |-> NoRecord, detached |-> FALSE,
     checks |-> <<>>, isAuthentic |-> FALSE,
     stage |-> "", actor |-> "", location |-> ""]

\* What a step leaves: the engine, the frame, whether the call has settled
\* and with which error, and the keys whose record object the step replaced
\* in the Map.
Suspended(E, task) ==
    [E |-> E, task |-> task, threw |-> "none", done |-> FALSE, replaced |-> {}]
Fulfilled(E, task) ==
    [E |-> E, task |-> task, threw |-> "none", done |-> TRUE, replaced |-> {}]
Rejected(E, task, msg) ==
    [E |-> E, task |-> task, threw |-> msg, done |-> TRUE, replaced |-> {}]

\* this.save() as the last statement before emit and return: localStorage
\* .setItem throws when the quota is exceeded (full) and nothing catches it.
SaveAndReturn(E, task, full) ==
    IF full THEN Rejected(E, task, "QuotaExceededError")
    ELSE Fulfilled(Save(E), task)

\* createAlert up to its first await: the alert is pushed and the 'alert'
\* transaction made.
AlertBegun(E, task, reason, caller, t) ==
    LET alert == [id |-> <<"alert_", t>>, batchNumber |-> task.batchNumber,
                  reason |-> reason, timestamp |-> t, severity |-> "high",
                  status |-> "active"]
        tx == NewTransaction("alert",
                  [batchNumber |-> task.batchNumber, reason |-> reason], "system", t)
    IN  Suspended([E EXCEPT !.alerts = Append(@, alert)],
                  [task EXCEPT !.pc = "hash", !.fn = "createAlert", !.caller = caller,
                               !.tx = tx,
                               !.data = [type |-> "counterfeit_alert",
                                         batchNumber |-> task.batchNumber,
                                         reason |-> reason, txHash |-> tx.hash]])

\* registerMedicine up to await tx.generateHash()
RegisterBegun(E, medicineData, t) ==
    LET batchNumber == medicineData.batchNumber
        task == NewCall("registerMedicine", "registerMedicine", batchNumber,
                        medicineData.medicineName, E, t)
        rejected == RegisterRejects(E, medicineData)
        tx == NewTransaction("registration",
                  [batchNumber |-> batchNumber,
                   medicineName |-> medicineData.medicineName,
                   manufacturerId |-> medicineData.manufacturerId],
                  medicineData.manufacturerId, t)
        medicine ==
            [batchNumber |-> batchNumber,
             medicineName |-> medicineData.medicineName,
             manufacturerId |-> medicineData.manufacturerId,
             manufacturerName |-> medicineData.manufacturerName,
             mfgDate |-> medicineData.mfgDate,
             expiryDate |-> medicineData.expiryDate,
             registeredAt |-> t,
             status |-> "active",
             scanCount |-> 0,
             supplyChain |-> << [stage |-> "Manufactured",
                                 actor |-> IF medicineData.manufacturerName # ""
                                           THEN medicineData.manufacturerName
                                           ELSE medicineData.manufacturerId,
                                 location |-> "Manufacturing Plant",
                                 timestamp |-> t,
                                 txHash |-> EmptyHash] >>,
             verifications |-> <<>>,
             blockHash |-> EmptyHash,
             blockNumber |-> Undefined]
    IN  IF rejected # "none" THEN Rejected(E, task, rejected)
        ELSE Suspended(E, [task EXCEPT
                 !.tx = tx, !.medicine = medicine,
                 !.data = [type |-> "medicine_registration",
                           batchNumber |-> batchNumber,
                           medicineName |-> medicineData.medicineName,
                           manufacturerId |-> medicineData.manufacturerId,
                           txHash |-> tx.hash]])

\* verifyMedicine up to its first await: in createAlert for a batch that is
\* not in the map, at tx.generateHash() for one that is.
VerifyBegun(E, batchNumber, t) ==
    LET task == NewCall("verifyMedicine", "verifyPresent", batchNumber, "", E, t)
        medicine == MapGet(E.medicines, batchNumber)
        verdict == PresentChecks(medicine, batchNumber, t, Len(E.chain))
        scanned == RecordScan(medicine, verdict.isAuthentic, t)
        tx == NewTransaction("verification",
                  [batchNumber |-> batchNumber, medicineName |-> medicine.medicineName,
                   result |-> IF verdict.isAuthentic THEN "AUTHENTIC" ELSE "SUSPICIOUS"],
                  "verifier", t)
    IN  IF ~MapHas(E.medicines, batchNumber)
        THEN AlertBegun(E, [task EXCEPT !.checks = AbsentChecks.checks,
                                        !.isAuthentic = FALSE],
                        "Medicine not found on blockchain", "verifyAbsent", t)
        ELSE Suspended([E EXCEPT !.medicines = MapSet(@, batchNumber, scanned)],
                       [task EXCEPT
                          !.checks = verdict.checks,
                          !.isAuthentic = verdict.isAuthentic,
                          !.medicine = scanned, !.tx = tx,
                          !.data = [type |-> IF verdict.isAuthentic
                                             THEN "verification_passed"
                                             ELSE "verification_failed",
                                    batchNumber |-> batchNumber,
                                    txHash |-> tx.hash]])

\* transferMedicine up to await tx.generateHash(); medicine is the object in
\* the Map, not a copy of it.
TransferBegun(E, batchNumber, stage, actor, location, t) ==
    LET task == NewCall("transferMedicine", "transferMedicine", batchNumber, "", E, t)
        tx == NewTransaction("transfer",
                  [batchNumber |-> batchNumber, stage |-> stage, actor |-> actor,
                   location |-> location], actor, t)
    IN  IF ~MapHas(E.medicines, batchNumber) THEN Rejected(E, task, "Medicine not found")
        ELSE Suspended(E, [task EXCEPT
                 !.tx = tx, !.medicine = MapGet(E.medicines, batchNumber),
                 !.stage = stage, !.actor = actor, !.location = location,
                 !.data = [type |-> "supply_chain_transfer", batchNumber |-> batchNumber,
                           stage |-> stage, actor |-> actor, txHash |-> tx.hash]])

\* createAlert called from outside, up to await tx.generateHash()
CreateAlertBegun(E, batchNumber, reason, t) ==
    AlertBegun(E, NewCall("createAlert", "createAlert", batchNumber, "", E, t),
               reason, "none", t)

\* After tx.generateHash(): addBlock reads the head and the chain length,
\* builds the block and starts mining it.
AfterGenerateHash(E, task, t) ==
    Suspended(E, [task EXCEPT
        !.pc = "mine",
        !.newBlock = NewBlock(Len(E.chain), t, task.data, GetLatestBlock(E).hash)])

\* After mineBlock: addBlock pushes the block, saves, emits 'blockAdded' and
\* returns it.
AfterMineBlock(E, task, full) ==
    LET newBlock == MineBlock(task.newBlock, Difficulty)
        E1 == [E EXCEPT !.chain = Append(@, newBlock)]
    IN  IF full THEN Rejected(E1, task, "QuotaExceededError")
        ELSE Suspended(Save(E1), [task EXCEPT !.pc = "store", !.block = newBlock])

\* After addBlock returned, the rest of the function that awaited it.
AfterAddBlock(E, task, t, full) ==
    LET tx == Confirm(task.tx, task.block)
        pushed == [E EXCEPT !.transactions = Append(@, tx)]
    IN  CASE task.fn = "registerMedicine" ->
               LET medicine == [task.medicine EXCEPT
                                   !.supplyChain[1].txHash = tx.hash,
                                   !.blockHash = task.block.hash,
                                   !.blockNumber = task.block.index]
                   E1 == [pushed EXCEPT
                            !.medicines = MapSet(@, task.batchNumber, medicine)]
               IN  [SaveAndReturn(E1, task, full) EXCEPT
                      !.replaced = IF MapHas(E.medicines, task.batchNumber)
                                   THEN {task.batchNumber} ELSE {}]
          [] task.fn = "createAlert" ->
               IF full THEN Rejected(pushed, task, "QuotaExceededError")
               ELSE IF task.caller = "none" THEN Fulfilled(Save(pushed), task)
               ELSE Suspended(Save(pushed), [task EXCEPT !.pc = "resume"])
          [] task.fn = "verifyAbsent" ->
               SaveAndReturn(
                 [pushed EXCEPT !.scanHistory =
                     Append(@, [batchNumber |-> task.batchNumber,
                                result |-> "counterfeit", timestamp |-> t,
                                reason |-> "Not found on blockchain"])],
                 task, full)
          [] task.fn = "verifyPresent" ->
               LET E1 == [pushed EXCEPT !.scanHistory =
                             Append(@, [batchNumber |-> task.batchNumber,
                                        medicineName |-> task.medicine.medicineName,
                                        result |-> IF task.isAuthentic THEN "authentic"
                                                   ELSE "counterfeit",
                                        timestamp |-> t])]
               IN  IF task.isAuthentic THEN SaveAndReturn(E1, task, full)
                   ELSE AlertBegun(E1, task, "Verification checks failed",
                                   "verifyPresent", t)
          [] task.fn = "transferMedicine" ->
               LET medicine == IF task.detached THEN task.medicine
                               ELSE MapGet(E.medicines, task.batchNumber)
                   moved == [medicine EXCEPT !.supplyChain =
                                Append(@, [stage |-> task.stage, actor |-> task.actor,
                                           location |-> task.location, timestamp |-> t,
                                           txHash |-> tx.hash])]
                   E1 == [pushed EXCEPT
                            !.medicines = MapSet(@, task.batchNumber, moved)]
               IN  [SaveAndReturn(E1, task, full) EXCEPT
                      !.replaced = IF task.detached THEN {task.batchNumber} ELSE {}]

\* After createAlert returned to verifyMedicine, the rest of verifyMedicine.
AfterCreateAlert(E, task, t, full) ==
    IF task.caller = "verifyAbsent"
    THEN LET tx == NewTransaction("verification",
                       [batchNumber |-> task.batchNumber, result |-> "COUNTERFEIT",
                        reason |-> "Not found on blockchain"], "verifier", t)
         IN  Suspended(E, [task EXCEPT
                 !.pc = "hash", !.fn = "verifyAbsent", !.caller = "none", !.tx = tx,
                 !.data = [type |-> "verification_failed",
                           batchNumber |-> task.batchNumber, txHash |-> tx.hash]])
    ELSE SaveAndReturn(E, task, full)

\* A suspended transferMedicine holds the record object it took from the
\* Map.  When another call puts a different object under that key, the one
\* held is no longer the one in the Map: the frame keeps it as it then is.
Detached(task, E, replaced) ==
    IF /\ task.pc # "free"
       /\ task.fn = "transferMedicine"
       /\ ~task.detached
       /\ task.batchNumber \in replaced
    THEN [task EXCEPT !.detached = TRUE,
                      !.medicine = MapGet(E.medicines, task.batchNumber)]
    ELSE task

\* The call that has settled, as the caller sees it.
Outcome(task, threw) ==
    [op |-> task.op, batchNumber |-> task.batchNumber,
     medicineName |-> task.medicineName, time |-> task.time, pre |-> task.pre,
     threw |-> threw, isAuthentic |-> threw = "none" /\ task.isAuthentic,
     checks |-> task.checks, alone |-> task.alone]

Busy == {s \in Slots : calls[s].pc # "free"}

\* A callee has returned and its caller has not yet gone on: the caller runs
\* before any other call does.
Returning == \E s \in Slots : calls[s].pc \in {"store", "resume"}

\* A new call can be made: a slot is free, no caller is about to go on, and
\* the chain with a block for each call in flight is below MaxBlocks.
Callable ==
    /\ Len(chain) > 0
    /\ Len(chain) + Cardinality(Busy) < MaxBlocks
    /\ Busy # Slots
    /\ ~Returning

\* The batch the overlapping calls are about.
AsyncBatchIds == {"B-001"}

\* The step R of the call in slot s, which has just been made (started) or
\* was suspended.
Settle(s, R, started) ==
    LET task == IF started THEN [R.task EXCEPT !.alone = Busy = {}] ELSE R.task
    IN  /\ Becomes(R.E)
        /\ calls' = [o \in Slots |->
                        IF o = s THEN IF R.done THEN NoTask ELSE task
                        ELSE LET other == Detached(calls[o], Engine, R.replaced)
                             IN  IF started /\ other.pc # "free"
                                 THEN [other EXCEPT !.alone = FALSE]
                                 ELSE other]
        /\ last' = IF R.done THEN Outcome(task, R.threw) ELSE last
        /\ UNCHANGED <<now, sol, solLast>>

AsyncRegister ==
    \E medicineData \in {d \in MedicineData(AsyncBatchIds) : d.medicineName # ""} :
        /\ Callable
        /\ Settle(CHOOSE s \in Slots : s \notin Busy,
                  RegisterBegun(Engine, medicineData, now), TRUE)

AsyncVerify ==
    \E batchNumber \in AsyncBatchIds :
        /\ Callable
        /\ Settle(CHOOSE s \in Slots : s \notin Busy,
                  VerifyBegun(Engine, batchNumber, now), TRUE)

AsyncTransfer ==
    \E batchNumber \in AsyncBatchIds, stage \in Stages :
        /\ Callable
        /\ Settle(CHOOSE s \in Slots : s \notin Busy,
                  TransferBegun(Engine, batchNumber, stage, "Carrier", "Depot", now),
                  TRUE)

AsyncCreateAlert ==
    \E batchNumber \in AsyncBatchIds :
        /\ Callable
        /\ Settle(CHOOSE s \in Slots : s \notin Busy,
                  CreateAlertBegun(Engine, batchNumber, "Suspected counterfeit", now),
                  TRUE)

\* The digest of a transaction arrives.
Hashed ==
    \E s \in Slots :
        /\ calls[s].pc = "hash"
        /\ ~Returning
        /\ Settle(s, AfterGenerateHash(Engine, calls[s], now), FALSE)

\* The digest that ends the nonce search arrives.
BlockMined ==
    \E s \in Slots :
        /\ calls[s].pc = "mine"
        /\ ~Returning
        /\ Settle(s, AfterMineBlock(Engine, calls[s], FALSE), FALSE)

\* addBlock has returned: its caller goes on.
BlockReturned ==
    \E s \in Slots :
        /\ calls[s].pc = "store"
        /\ Settle(s, AfterAddBlock(Engine, calls[s], now, FALSE), FALSE)

\* createAlert has returned to verifyMedicine, which goes on.
AlertReturned ==
    \E s \in Slots :
        /\ calls[s].pc = "resume"
        /\ Settle(s, AfterCreateAlert(Engine, calls[s], now, FALSE), FALSE)

NextAsync ==
    \/ JsInitialize
    \/ AsyncRegister
    \/ AsyncVerify
    \/ AsyncTransfer
    \/ AsyncCreateAlert
    \/ Hashed
    \/ BlockMined
    \/ BlockReturned
    \/ AlertReturned

SpecAsync == Init /\ [][NextAsync]_vars

\* The same steps with localStorage full, so that the save() of the step
\* throws.
BlockMinedUnsaved ==
    \E s \in Slots :
        /\ calls[s].pc = "mine"
        /\ ~Returning
        /\ Settle(s, AfterMineBlock(Engine, calls[s], TRUE), FALSE)

BlockReturnedUnsaved ==
    \E s \in Slots :
        /\ calls[s].pc = "store"
        /\ Settle(s, AfterAddBlock(Engine, calls[s], now, TRUE), FALSE)

AlertReturnedUnsaved ==
    \E s \in Slots :
        /\ calls[s].pc = "resume"
        /\ Settle(s, AfterCreateAlert(Engine, calls[s], now, TRUE), FALSE)

NextFaulty ==
    \/ NextAsync
    \/ BlockMinedUnsaved
    \/ BlockReturnedUnsaved
    \/ AlertReturnedUnsaved

SpecFaulty == Init /\ [][NextFaulty]_vars

----------------------------------------------------------------------------
(* The nonce search one digest at a time.  mineBlock awaits each digest, so *)
(* every turn of its loop is a step; a digest that was asked for arrives   *)
(* and the function awaiting it goes on, which is the fairness assumed.    *)

\* A turn of mineBlock's loop that leaves the nonce as it is.
TryNonceSame(b) == [b EXCEPT !.hash = CalculateHash(b)]

\* A turn of mineBlock's loop: this.nonce++, then the digest.
TryNonce(b) ==
    LET n == [b EXCEPT !.nonce = @ + 1]
    IN  [n EXCEPT !.hash = CalculateHash(n)]

\* The loop test fails on the hash the block has: one more turn.
NonceTried(s) ==
    /\ calls[s].pc = "mine"
    /\ ~Returning
    /\ ~HasZeroPrefix(calls[s].newBlock.hash, Difficulty)
    /\ Settle(s, Suspended(Engine, [calls[s] EXCEPT !.newBlock = TryNonce(@)]), FALSE)

\* The loop test holds: mineBlock returns and addBlock pushes the block.
BlockFound(s) ==
    /\ calls[s].pc = "mine"
    /\ ~Returning
    /\ HasZeroPrefix(calls[s].newBlock.hash, Difficulty)
    /\ Settle(s, AfterMineBlock(Engine, calls[s], FALSE), FALSE)

\* The next step of the call in slot s.
StepOf(s) ==
    \/ /\ calls[s].pc = "hash"
       /\ ~Returning
       /\ Settle(s, AfterGenerateHash(Engine, calls[s], now), FALSE)
    \/ NonceTried(s)
    \/ BlockFound(s)
    \/ /\ calls[s].pc = "store"
       /\ Settle(s, AfterAddBlock(Engine, calls[s], now, FALSE), FALSE)
    \/ /\ calls[s].pc = "resume"
       /\ Settle(s, AfterCreateAlert(Engine, calls[s], now, FALSE), FALSE)

NextMining ==
    \/ JsInitialize
    \/ AsyncRegister
    \/ AsyncVerify
    \/ AsyncTransfer
    \/ AsyncCreateAlert
    \/ Hashed
    \/ \E s \in Slots : NonceTried(s)
    \/ \E s \in Slots : BlockFound(s)
    \/ BlockReturned
    \/ AlertReturned

SpecMining ==
    /\ Init
    /\ [][NextMining]_vars
    /\ \A s \in Slots : WF_vars(StepOf(s))

----------------------------------------------------------------------------
(* Properties *)

\* What the last call of the engine was about.
Verified == last.op = "verifyMedicine"
Registered == last.op = "registerMedicine"
WasPresent == MapHas(last.pre.medicines, last.batchNumber)
RecordBefore == MapGet(last.pre.medicines, last.batchNumber)
Grew(field, n) == Len(Snapshot(Engine)[field]) = Len(last.pre[field]) + n
CheckNames(checks) == [i \in 1..Len(checks) |-> checks[i].name]

\* C1: after initialize() and any sequence of registerMedicine,
\* verifyMedicine, transferMedicine and createAlert calls made one at a time,
\* isChainValid() returns true.
C1_ChainValidAfterOperations ==
    Len(chain) > 0 => IsChainValid(Engine)

C1_Witness ==
    /\ Verified
    /\ Len(chain) >= 4
    /\ \E i \in 1..Len(chain) : chain[i].data.type = "medicine_registration"
    /\ IsChainValid(Engine)

\* C2: registering a batch id that is already in the medicine map throws the
\* duplicate-batch error and leaves the chain, the transactions, the medicine
\* map, the alerts and the scan history as they were; in the contract the
\* second registerMedicine of a batch reverts (with "Batch number already
\* registered" when the sender is authorized) and leaves medicineCount,
\* allBatchNumbers and the batch's supply chain as they were.
C2_DuplicateRegistrationRejected ==
    /\ (Registered /\ WasPresent) =>
          /\ last.threw = "already registered"
          /\ Snapshot(Engine) = last.pre
    /\ (solLast.op = "registerMedicine"
          /\ solLast.pre.medicines[solLast.batchNumber].exists) =>
          /\ solLast.reverted # "none"
          /\ OnlyAuthorizedManufacturer(solLast.pre, solLast.sender)
                => solLast.reverted = "Batch number already registered"
          /\ sol.medicineCount = solLast.pre.medicineCount
          /\ sol.allBatchNumbers = solLast.pre.allBatchNumbers
          /\ sol.supplyChain[solLast.batchNumber]
                = solLast.pre.supplyChain[solLast.batchNumber]
          /\ sol = solLast.pre

C2_Witness ==
    /\ Registered /\ WasPresent
    /\ last.threw = "already registered"
    /\ Len(chain) = 2
    /\ solLast.op = "registerMedicine"
    /\ solLast.reverted = "Batch number already registered"
    /\ sol.medicineCount = 1

C4_ValidBatchIsAuthentic ==
    (/\ Verified /\ WasPresent
     /\ RecordBefore.expiryDate # NaNDate /\ RecordBefore.expiryDate > last.time
     /\ RecordBefore.status # "sold"
     /\ RecordBefore.blockNumber # Undefined
     /\ RecordBefore.blockNumber < Len(last.pre.chain)) =>
        /\ last.isAuthentic
        /\ alerts = last.pre.alerts
        /\ Grew("chain", 1)

C4_Witness ==
    /\ Verified /\ WasPresent
    /\ RecordBefore.expiryDate > last.time
    /\ last.isAuthentic
    /\ Len(last.pre.chain) = 2
    /\ Len(chain) = 3
    /\ alerts = <<>>

\* C5: verifyMedicine of a registered batch whose expiry date is not after
\* the current time returns isAuthentic = false, reports 'Medicine Not
\* Expired' with passed = false and 'Blockchain Record Exists' with passed =
\* true, and adds at least one alert.
C5_ExpiredBatchIsRejected ==
    (/\ Verified /\ WasPresent
     /\ ~(RecordBefore.expiryDate # NaNDate /\ RecordBefore.expiryDate > last.time)) =>
        /\ ~last.isAuthentic
        /\ \E i \in 1..Len(last.checks) :
              last.checks[i].name = "Medicine Not Expired" /\ ~last.checks[i].passed
        /\ \E i \in 1..Len(last.checks) :
              last.checks[i].name = "Blockchain Record Exists" /\ last.checks[i].passed
        /\ \A i \in 1..Len(last.checks) :
              last.checks[i].name = "Medicine Not Expired" => ~last.checks[i].passed
        /\ Len(alerts) >= Len(last.pre.alerts) + 1

C5_Witness ==
    /\ Verified /\ WasPresent
    /\ RecordBefore.expiryDate = 1 /\ last.time = 1
    /\ ~last.isAuthentic
    /\ Len(alerts) = Len(last.pre.alerts) + 1
    /\ alerts[Len(alerts)].reason = "Verification checks failed"

Mutating == {"registerMedicine", "verifyMedicine", "transferMedicine", "createAlert"}

C7_SameVerdictInBothImplementations ==
    (/\ Verified /\ solLast.op = "verifyMedicine"
     /\ WasPresent /\ solLast.pre.medicines[solLast.batchNumber].exists) =>
        last.isAuthentic = solLast.isAuthentic

SixChecks == << "Blockchain Record Exists", "Batch Number Matches",
                "Medicine Not Expired", "Not Previously Sold",
                "Supply Chain Valid", "Blockchain Integrity" >>

\* C8: for a batch that is not in the map verifyMedicine returns exactly one
\* check, 'Blockchain Record Exists' with passed = false; for a batch that is
\* in the map it returns exactly six checks, in the order record-exists,
\* batch-matches, not-expired, not-sold, supply-chain-present,
\* chain-integrity, whichever of them fail.
C8_TwoTierChecks ==
    Verified =>
        IF WasPresent
        THEN /\ CheckNames(last.checks) = SixChecks
             /\ last.checks[1].passed /\ last.checks[2].passed
        ELSE /\ CheckNames(last.checks) = <<"Blockchain Record Exists">>
             /\ ~last.checks[1].passed
             /\ ~last.isAuthentic

C8_Witness ==
    /\ Verified /\ WasPresent
    /\ Len(last.checks) = 6
    /\ ~last.checks[3].passed /\ ~last.checks[4].passed
    /\ ~last.checks[5].passed /\ ~last.checks[6].passed

\* C9: for a batch that is in the map, isAuthentic is the conjunction of the
\* passed flags of the not-expired, not-sold and chain-integrity checks, each
\* of which reports its own condition; the supply-chain check does not enter
\* the verdict; an expired and sold batch has both checks failed.
C9_VerdictIsConjunctionOfGatingChecks ==
    (Verified /\ WasPresent) =>
        /\ last.isAuthentic = (/\ last.checks[3].passed
                               /\ last.checks[4].passed
                               /\ last.checks[6].passed)
        /\ last.checks[3].passed =
              (RecordBefore.expiryDate # NaNDate /\ RecordBefore.expiryDate > last.time)
        /\ last.checks[4].passed = (RecordBefore.status # "sold")
        /\ last.checks[5].passed = (Len(RecordBefore.supplyChain) > 0)
        /\ last.checks[6].passed =
              (/\ RecordBefore.blockNumber # Undefined
               /\ RecordBefore.blockNumber < Len(last.pre.chain))

C9_Witness ==
    /\ Verified /\ WasPresent
    /\ RecordBefore.status = "sold"
    /\ RecordBefore.expiryDate = 1 /\ last.time = 1
    /\ ~last.checks[3].passed /\ ~last.checks[4].passed
    /\ last.checks[5].passed /\ last.checks[6].passed
    /\ ~last.isAuthentic

\* C10: registerMedicine with an empty batch id or an empty medicine name is
\* rejected before any mutation, by the engine and by the contract.
C10_EmptyInputRejected ==
    /\ (Registered /\ (last.batchNumber = "" \/ last.medicineName = "")) =>
          /\ last.threw # "none"
          /\ Snapshot(Engine) = last.pre
    /\ (solLast.op = "registerMedicine"
          /\ (solLast.batchNumber = "" \/ solLast.medicineName = "")) =>
          /\ solLast.reverted # "none"
          /\ sol = solLast.pre

\* C11: transferMedicine of a batch id that is not in the medicine map throws
\* the not-found error and leaves the chain, the transactions, the medicine
\* map, the alerts and the scan history as they were; for a batch that is in
\* the map it appends one checkpoint to that batch and adds one block and one
\* 'transfer' transaction.  The contract's updateSupplyChain reverts for an
\* absent batch and appends one entry for an existing one.
C11_TransferNeedsExistingBatch ==
    /\ (last.op = "transferMedicine" /\ ~WasPresent) =>
          /\ last.threw = "Medicine not found"
          /\ Snapshot(Engine) = last.pre
    /\ (last.op = "transferMedicine" /\ WasPresent) =>
          /\ last.threw = "none"
          /\ Grew("chain", 1) /\ Grew("transactions", 1)
          /\ chain[Len(chain)].data.type = "supply_chain_transfer"
          /\ transactions[Len(transactions)].type = "transfer"
          /\ alerts = last.pre.alerts /\ scanHistory = last.pre.scanHistory
          /\ MapKeys(medicines) = MapKeys(last.pre.medicines)
          /\ \A k \in MapKeys(medicines) :
                LET before == MapGet(last.pre.medicines, k)
                    after == MapGet(medicines, k)
                IN  IF k = last.batchNumber
                    THEN /\ Len(after.supplyChain) = Len(before.supplyChain) + 1
                         /\ SubSeq(after.supplyChain, 1, Len(before.supplyChain))
                               = before.supplyChain
                         /\ [after EXCEPT !.supplyChain = before.supplyChain] = before
                    ELSE after = before
    /\ (solLast.op = "updateSupplyChain"
          /\ ~solLast.pre.medicines[solLast.batchNumber].exists) =>
          /\ solLast.reverted = "Medicine not found on blockchain"
          /\ sol = solLast.pre
    /\ (solLast.op = "updateSupplyChain"
          /\ solLast.pre.medicines[solLast.batchNumber].exists) =>
          /\ solLast.reverted = "none"
          /\ Len(sol.supplyChain[solLast.batchNumber])
                = Len(solLast.pre.supplyChain[solLast.batchNumber]) + 1
          /\ [sol EXCEPT !.supplyChain[solLast.batchNumber] =
                            solLast.pre.supplyChain[solLast.batchNumber]] = solLast.pre

C11_Witness ==
    /\ last.op = "transferMedicine" /\ WasPresent
    /\ last.threw = "none"
    /\ Len(MapGet(medicines, last.batchNumber).supplyChain) = 2
    /\ solLast.op = "updateSupplyChain" /\ solLast.reverted = "none"
    /\ Len(sol.supplyChain[solLast.batchNumber]) = 2

C18_AlertIffVerdictFalse ==
    Verified =>
        IF last.isAuthentic
        THEN alerts = last.pre.alerts
        ELSE /\ Grew("alerts", 1)
             /\ SubSeq(alerts, 1, Len(last.pre.alerts)) = last.pre.alerts
             /\ alerts[Len(alerts)].batchNumber = last.batchNumber
             /\ alerts[Len(alerts)].status = "active"

C18_Witness ==
    /\ Verified /\ WasPresent
    /\ RecordBefore.status = "sold"
    /\ RecordBefore.expiryDate > last.time
    /\ ~last.isAuthentic
    /\ Grew("alerts", 1)
    /\ alerts[Len(alerts)].reason = "Verification checks failed"

\* C19: every verifyMedicine call of the contract that returns isAuthentic =
\* false (batch absent, flagged or sold) adds one to alertCount and stores a
\* new unresolved CounterfeitAlert for that batch.
C19_FailedContractVerifyRaisesAlert ==
    (solLast.op = "verifyMedicine" /\ solLast.reverted = "none"
        /\ ~solLast.isAuthentic) =>
        /\ sol.alertCount = solLast.pre.alertCount + 1
        /\ sol.alertCount \in DOMAIN sol.alerts
        /\ sol.alerts[sol.alertCount].batchNumber = solLast.batchNumber
        /\ ~sol.alerts[sol.alertCount].resolved

\* C20: markAsSold of an existing batch sets its status to Sold and changes
\* nothing else, and of an absent batch reverts with the not-found reason;
\* flagMedicine never reverts and always adds exactly one alert, sets the
\* status to Flagged when the batch exists, and for an absent batch leaves
\* every Medicine struct as it was, so that no record comes to exist.
C20_MarkSoldAndFlag ==
    /\ (solLast.op = "markAsSold"
          /\ solLast.pre.medicines[solLast.batchNumber].exists) =>
          /\ solLast.reverted = "none"
          /\ sol.medicines[solLast.batchNumber].status = "Sold"
          /\ [sol EXCEPT !.medicines[solLast.batchNumber].status =
                            solLast.pre.medicines[solLast.batchNumber].status]
                = solLast.pre
    /\ (solLast.op = "markAsSold"
          /\ ~solLast.pre.medicines[solLast.batchNumber].exists) =>
          /\ solLast.reverted = "Medicine not found on blockchain"
          /\ sol = solLast.pre
    /\ solLast.op = "flagMedicine" =>
          /\ solLast.reverted = "none"
          /\ sol.alertCount = solLast.pre.alertCount + 1
          /\ DOMAIN sol.alerts = DOMAIN solLast.pre.alerts \cup {sol.alertCount}
          /\ sol.alertCount \notin DOMAIN solLast.pre.alerts
          /\ \A id \in DOMAIN solLast.pre.alerts :
                sol.alerts[id] = solLast.pre.alerts[id]
          /\ sol.alerts[sol.alertCount].batchNumber = solLast.batchNumber
          /\ ~sol.alerts[sol.alertCount].resolved
          /\ IF solLast.pre.medicines[solLast.batchNumber].exists
             THEN /\ sol.medicines[solLast.batchNumber].status = "Flagged"
                  /\ [sol.medicines EXCEPT ![solLast.batchNumber].status =
                         solLast.pre.medicines[solLast.batchNumber].status]
                        = solLast.pre.medicines
             ELSE sol.medicines = solLast.pre.medicines
          /\ sol.medicineCount = solLast.pre.medicineCount
          /\ sol.allBatchNumbers = solLast.pre.allBatchNumbers
          /\ sol.supplyChain = solLast.pre.supplyChain
          /\ sol.verifications = solLast.pre.verifications

C20_Witness ==
    /\ solLast.op = "flagMedicine"
    /\ ~sol.medicines[solLast.batchNumber].exists
    /\ sol.alertCount = 1
    /\ \E b \in DOMAIN sol.medicines : sol.medicines[b].status = "Sold"

\* C12: a registerMedicine, verifyMedicine, transferMedicine or createAlert
\* call that fails leaves the chain, the transactions, the medicine map, the
\* alerts and the scan history exactly as they were before the call; stated
\* for a call during which no other call was in flight.
C12_FailedCallLeavesNoPartialState ==
    (last.op \in Mutating /\ last.threw # "none" /\ last.alone /\ Busy = {}) =>
        Snapshot(Engine) = last.pre

\* C13: when mutating calls overlap at their awaits, then once all of them
\* have settled every block's index is its position in the chain, no two
\* blocks share an index or a previousHash, and isChainValid() returns true.
C13_OverlappingCallsAreSerialized ==
    (Len(chain) > 0 /\ Busy = {}) =>
        /\ \A i \in 1..Len(chain) : chain[i].index = i - 1
        /\ \A i, j \in 1..Len(chain) :
              i # j => /\ chain[i].index # chain[j].index
                       /\ chain[i].previousHash # chain[j].previousHash
        /\ IsChainValid(Engine)

\* C14: however registerMedicine calls for one batch id overlap, at most one
\* registration transaction for that id is ever in the transaction list
\* (at most one of the calls succeeds).
C14_OneRegistrationPerBatch ==
    \A b \in AsyncBatchIds :
        Cardinality({i \in 1..Len(transactions) :
                        /\ transactions[i].type = "registration"
                        /\ transactions[i].data.batchNumber = b}) <= 1

\* C15: at every point where a query or a listener can run, the chain has
\* one block more than there are transactions, and every
\* medicine_registration block has its record in the medicine map.
C15_ReadersSeeConsistentState ==
    Len(chain) > 0 =>
        /\ Len(chain) = Len(transactions) + 1
        /\ \A i \in 1..Len(chain) :
              chain[i].data.type = "medicine_registration" =>
                  MapHas(medicines, chain[i].data.batchNumber)

\* C21: createAlert(batchNumber, reason) returns for every batch id, in the
\* medicine map or not: it appends exactly one alert (for that batch, with
\* that reason), exactly one block (a counterfeit_alert block) and exactly
\* one 'alert' transaction, and leaves the medicine map and the scan history
\* as they were.
C21_CreateAlertAlwaysSucceeds ==
    last.op = "createAlert" =>
        /\ last.threw = "none"
        /\ Grew("alerts", 1)
        /\ SubSeq(alerts, 1, Len(last.pre.alerts)) = last.pre.alerts
        /\ alerts[Len(alerts)].batchNumber = last.batchNumber
        /\ alerts[Len(alerts)].reason = "Suspected counterfeit"
        /\ Grew("chain", 1)
        /\ SubSeq(chain, 1, Len(last.pre.chain)) = last.pre.chain
        /\ chain[Len(chain)].data.type = "counterfeit_alert"
        /\ chain[Len(chain)].data.batchNumber = last.batchNumber
        /\ Grew("transactions", 1)
        /\ SubSeq(transactions, 1, Len(last.pre.transactions)) = last.pre.transactions
        /\ transactions[Len(transactions)].type = "alert"
        /\ transactions[Len(transactions)].hash = chain[Len(chain)].data.txHash
        /\ medicines = last.pre.medicines
        /\ scanHistory = last.pre.scanHistory

C21_Witness ==
    /\ last.op = "createAlert"
    /\ ~WasPresent
    /\ Len(last.pre.medicines) = 1
    /\ Len(alerts) = 1
    /\ Len(chain) = 3
    /\ transactions[2].type = "alert"

C23_StoredSnapshotsAreBetweenOperations ==
    /\ storage # <<>> =>
          /\ Len(storage[1].chain) = Len(storage[1].transactions) + 1
          /\ \A i \in 1..Len(storage[1].chain) :
                storage[1].chain[i].data.type = "medicine_registration" =>
                    MapHas(storage[1].medicines, storage[1].chain[i].data.batchNumber)
    /\ (last.op \in Mutating /\ last.threw = "none" /\ Busy = {}) =>
          storage = <<Snapshot(Engine)>>

\* C24: setMedicineDetails of a batch that does not exist reverts with the
\* not-found reason and changes nothing; of a batch that exists it writes the
\* medicineType, quantity, composition, shipmentDest and price of that batch
\* and nothing else: its status, scanCount and other fields, the supply
\* chains, the verification records, the counters, the alerts and the other
\* batches stay as they were.
C24_SetDetailsWritesOnlyDetails ==
    /\ (solLast.op = "setMedicineDetails"
          /\ ~solLast.pre.medicines[solLast.batchNumber].exists) =>
          /\ solLast.reverted = "Medicine not found on blockchain"
          /\ sol = solLast.pre
    /\ (solLast.op = "setMedicineDetails"
          /\ solLast.pre.medicines[solLast.batchNumber].exists) =>
          LET before == solLast.pre.medicines[solLast.batchNumber]
              after == sol.medicines[solLast.batchNumber]
          IN  /\ solLast.reverted = "none"
              /\ [medicineType |-> after.medicineType, quantity |-> after.quantity,
                  composition |-> after.composition,
                  shipmentDest |-> after.shipmentDest, price |-> after.price]
                    \in MedicineDetails
              /\ after.status = before.status
              /\ after.scanCount = before.scanCount
              /\ after.exists
              /\ [sol EXCEPT !.medicines[solLast.batchNumber] =
                     [@ EXCEPT !.medicineType = before.medicineType,
                               !.quantity = before.quantity,
                               !.composition = before.composition,
                               !.shipmentDest = before.shipmentDest,
                               !.price = before.price]] = solLast.pre

C24_Witness ==
    /\ solLast.op = "setMedicineDetails"
    /\ solLast.reverted = "none"
    /\ solLast.pre.medicines[solLast.batchNumber].medicineType = ""
    /\ sol.medicines[solLast.batchNumber].medicineType = "Tablet"
    /\ sol.medicines[solLast.batchNumber].price = 5
    /\ sol.medicines[solLast.batchNumber].status = "Sold"
    /\ Len(sol.supplyChain[solLast.batchNumber]) = 1

\* The 'transfer' transactions of batch k, and its registration transactions.
TransfersOf(k) ==
    {i \in 1..Len(transactions) : /\ transactions[i].type = "transfer"
                                  /\ transactions[i].data.batchNumber = k}
RegistrationsOf(k) ==
    {i \in 1..Len(transactions) : /\ transactions[i].type = "registration"
                                  /\ transactions[i].data.batchNumber = k}

C26_AlertsOnlyGrow ==
    /\ Len(alerts) >= Len(last.pre.alerts)
    /\ SubSeq(alerts, 1, Len(last.pre.alerts)) = last.pre.alerts
    /\ Len(alerts) > Len(last.pre.alerts) =>
          \/ last.op = "createAlert"
          \/ Verified /\ ~last.isAuthentic
    /\ last.op \in {"initialize", "registerMedicine", "transferMedicine"} =>
          alerts = last.pre.alerts
    /\ \A i \in 1..Len(alerts) : alerts[i].status = "active"
    /\ sol.alertCount >= solLast.pre.alertCount
    /\ DOMAIN solLast.pre.alerts \subseteq DOMAIN sol.alerts
    /\ \A id \in DOMAIN solLast.pre.alerts : sol.alerts[id] = solLast.pre.alerts[id]
    /\ DOMAIN sol.alerts = 1..sol.alertCount
    /\ sol.alertCount > solLast.pre.alertCount =>
          \/ solLast.op = "flagMedicine"
          \/ solLast.op = "verifyMedicine" /\ ~solLast.isAuthentic
    /\ solLast.op \in {"registerMedicine", "updateSupplyChain", "markAsSold"} =>
          /\ sol.alerts = solLast.pre.alerts
          /\ sol.alertCount = solLast.pre.alertCount
    /\ \A id \in DOMAIN sol.alerts : ~sol.alerts[id].resolved

C26_Witness ==
    /\ Registered /\ last.threw = "none"
    /\ Len(last.pre.alerts) = 1
    /\ alerts = last.pre.alerts
    /\ solLast.op = "registerMedicine" /\ solLast.reverted = "none"
    /\ solLast.pre.alertCount = 1
    /\ sol.alerts = solLast.pre.alerts

C28_RecordPointsAtItsRegistrationBlock ==
    /\ \A k \in MapKeys(medicines) :
          LET medicine == MapGet(medicines, k)
          IN  /\ medicine.blockNumber # Undefined
              /\ medicine.blockNumber \in 0..(Len(chain) - 1)
              /\ LET block == chain[medicine.blockNumber + 1]
                 IN  /\ block.index = medicine.blockNumber
                     /\ block.data.type = "medicine_registration"
                     /\ block.data.batchNumber = k
                     /\ block.hash = medicine.blockHash
    /\ (Verified /\ WasPresent) =>
          /\ last.checks[6].name = "Blockchain Integrity"
          /\ last.checks[6].passed

C28_Witness ==
    /\ Len(medicines) = 2
    /\ MapGet(medicines, "B-001").blockNumber = 1
    /\ MapGet(medicines, "").blockNumber = 2
    /\ chain[3].data.type = "medicine_registration"
    /\ chain[3].data.batchNumber = ""
    /\ MapGet(medicines, "").blockHash = chain[3].hash

\* C29: between calls made one at a time, the index of every block is its
\* position in the chain (0, 1, 2, ... with no gap and no repeat), the block
\* at index 0 is the genesis block, and every call leaves the blocks that
\* were in the chain as they were and where they were.
C29_IndicesArePositionsAndBlocksStay ==
    /\ \A i \in 1..Len(chain) : chain[i].index = i - 1
    /\ \A i, j \in 1..Len(chain) : i # j => chain[i].index # chain[j].index
    /\ Len(chain) > 0 =>
          /\ chain[1].data.type = "genesis"
          /\ chain[1].previousHash = GenesisPrevious
          /\ \A i \in 2..Len(chain) : chain[i].data.type # "genesis"
    /\ Len(chain) >= Len(last.pre.chain)
    /\ SubSeq(chain, 1, Len(last.pre.chain)) = last.pre.chain

C29_Witness ==
    /\ Verified /\ ~last.isAuthentic
    /\ Len(last.pre.chain) = 2
    /\ Len(chain) = 4
    /\ chain[3].index = 2 /\ chain[4].index = 3
    /\ chain[2] = last.pre.chain[2]

\* The block of the chain that the last edit changed.
EditedAt == CHOOSE i \in 1..Len(chain) : chain[i] # last.pre.chain[i]

\* Block i of chain c carries the digest of its own fields and the hash of
\* the block before it.
Linked(c, i) ==
    /\ c[i].hash = BlockDigest(c[i].index, c[i].previousHash, c[i].timestamp,
                               c[i].data, c[i].nonce)
    /\ c[i].previousHash = c[i - 1].hash

\* C30: isChainValid() returns a boolean, and returns true exactly when every
\* block from index 1 on has for its stored hash the digest of its stored
\* index, previousHash, timestamp, data and nonce and for its stored
\* previousHash the stored hash of the block before it; so after one stored
\* field of a block with index 1 or more is changed in a chain that
\* validated, the hash left as it was, isChainValid() returns false.
C30_ChainValidIffEveryBlockLinked ==
    /\ IsChainValid(Engine) \in BOOLEAN
    /\ IsChainValid(Engine) = (\A i \in 2..Len(chain) : Linked(chain, i))
    /\ (last.op = "tamper" /\ EditedAt >= 2) => ~IsChainValid(Engine)

C30_Witness ==
    /\ last.op = "tamper"
    /\ last.medicineName = "previousHash"
    /\ Len(chain) = 3
    /\ EditedAt = 2
    /\ ChainValidFrom(last.pre.chain, 2)
    /\ ~IsChainValid(Engine)

Authorizing == {"authorizeManufacturer", "authorizeDistributor", "authorizeShop"}

\* C38: the contract's registerMedicine is mined only for the owner or an
\* address in authorizedManufacturers, and for any other sender it reverts
\* and leaves the storage as it was; authorizeManufacturer,
\* authorizeDistributor and authorizeShop are mined only for the owner and
\* revert for anyone else; the owner is the deployer for good, and an address
\* that is authorized stays authorized.
C38_OnlyAuthorizedSendersRegister ==
    /\ solLast.op = "registerMedicine" =>
          IF \/ solLast.sender = solLast.pre.owner
             \/ solLast.sender \in solLast.pre.authorizedManufacturers
          THEN solLast.reverted # "Not an authorized manufacturer"
          ELSE /\ solLast.reverted = "Not an authorized manufacturer"
               /\ sol = solLast.pre
    /\ solLast.op \in Authorizing =>
          IF solLast.sender = solLast.pre.owner
          THEN solLast.reverted = "none"
          ELSE /\ solLast.reverted = "Only contract owner can perform this action"
               /\ sol = solLast.pre
    /\ sol.owner = "owner"
    /\ sol.owner = solLast.pre.owner
    /\ solLast.pre.authorizedManufacturers \subseteq sol.authorizedManufacturers
    /\ solLast.pre.authorizedDistributors \subseteq sol.authorizedDistributors
    /\ solLast.pre.authorizedShops \subseteq sol.authorizedShops
    /\ sol.owner \in sol.authorizedManufacturers
    /\ (\/ sol.authorizedManufacturers # solLast.pre.authorizedManufacturers
        \/ sol.authorizedDistributors # solLast.pre.authorizedDistributors
        \/ sol.authorizedShops # solLast.pre.authorizedShops) =>
          /\ solLast.op \in Authorizing
          /\ solLast.sender = sol.owner

C38_Witness ==
    /\ solLast.op = "registerMedicine"
    /\ solLast.sender = "maker"
    /\ solLast.reverted = "none"
    /\ "maker" \in solLast.pre.authorizedManufacturers
    /\ sol.medicineCount = 1
    /\ sol.medicines[solLast.batchNumber].registeredBy = "maker"

\* C39: in the contract, after any transactions, medicineCount is the length
\* of allBatchNumbers and the number of batch ids whose struct exists, and
\* allBatchNumbers names each of them once; alertCount is the number of
\* alerts stored, under the ids 1..alertCount, each alert carrying its id;
\* verificationCount goes up by one in every verifyMedicine transaction (none
\* reverts) and in no other, and is the number of verification records
\* stored over all batch ids.
C39_CountersMatchStorage ==
    /\ sol.medicineCount = Len(sol.allBatchNumbers)
    /\ sol.medicineCount
          = Cardinality({b \in DOMAIN sol.medicines : sol.medicines[b].exists})
    /\ {sol.allBatchNumbers[i] : i \in 1..Len(sol.allBatchNumbers)}
          = {b \in DOMAIN sol.medicines : sol.medicines[b].exists}
    /\ \A i, j \in 1..Len(sol.allBatchNumbers) :
          i # j => sol.allBatchNumbers[i] # sol.allBatchNumbers[j]
    /\ \A i \in 1..Len(sol.allBatchNumbers) :
          sol.medicines[sol.allBatchNumbers[i]].id = i
    /\ DOMAIN sol.alerts = 1..sol.alertCount
    /\ \A id \in DOMAIN sol.alerts : sol.alerts[id].id = id
    /\ sol.verificationCount = SumLen(sol.verifications, DOMAIN sol.verifications)
    /\ IF solLast.op = "verifyMedicine"
       THEN /\ solLast.reverted = "none"
            /\ sol.verificationCount = solLast.pre.verificationCount + 1
       ELSE sol.verificationCount = solLast.pre.verificationCount

C39_Witness ==
    /\ sol.medicineCount = 1
    /\ sol.alertCount = 1
    /\ sol.verificationCount = 1
    /\ solLast.op = "verifyMedicine"
    /\ ~solLast.isAuthentic
    /\ Len(sol.verifications[solLast.batchNumber]) = 1
    /\ ~sol.medicines[solLast.batchNumber].exists

\* C40: in the contract a batch is Active when it is registered; a status
\* changes only in a markAsSold or flagMedicine of that batch, to Sold or to
\* Flagged, so a batch that has left Active does not come back to it and no
\* batch is ever Expired; verifyMedicine of a batch that is Flagged returns
\* false with the flagged warning and leaves it Flagged, whether or not it
\* was sold before (the flagged test comes first), of a batch that is Sold
\* returns false with the sold warning, and of an Active one returns true.
C40_StatusLeavesActiveForGood ==
    /\ \A b \in DOMAIN sol.medicines :
          /\ sol.medicines[b].status \in {"Active", "Sold", "Flagged"}
          /\ ~sol.medicines[b].exists => sol.medicines[b].status = "Active"
    /\ \A b \in DOMAIN solLast.pre.medicines :
          LET before == solLast.pre.medicines[b].status
              after == sol.medicines[b].status
          IN  /\ before # "Active" => after # "Active"
              /\ after # before =>
                    /\ b = solLast.batchNumber
                    /\ \/ solLast.op = "markAsSold" /\ after = "Sold"
                       \/ solLast.op = "flagMedicine" /\ after = "Flagged"
    /\ (solLast.op = "registerMedicine" /\ solLast.reverted = "none") =>
          sol.medicines[solLast.batchNumber].status = "Active"
    /\ (solLast.op = "verifyMedicine"
          /\ solLast.pre.medicines[solLast.batchNumber].exists) =>
          LET before == solLast.pre.medicines[solLast.batchNumber].status
          IN  /\ sol.medicines[solLast.batchNumber].status = before
              /\ solLast.isAuthentic = (before = "Active")
              /\ before = "Flagged" =>
                    solLast.details = "WARNING: Medicine has been FLAGGED as suspicious!"
              /\ before = "Sold" =>
                    solLast.details
                       = "WARNING: Medicine already marked as SOLD. Possible duplicate!"

C40_Witness ==
    /\ solLast.op = "verifyMedicine"
    /\ sol.medicines[solLast.batchNumber].status = "Flagged"
    /\ solLast.details = "WARNING: Medicine has been FLAGGED as suspicious!"
    /\ ~solLast.isAuthentic
    /\ sol.alertCount = 1
    /\ sol.medicines[solLast.batchNumber].scanCount = 1
    /\ Len(sol.verifications[solLast.batchNumber]) = 1

PassedCheck(name) ==
    \E i \in 1..Len(last.checks) : last.checks[i].name = name /\ last.checks[i].passed

\* C35: with the engine's calls made one at a time, every record of the map
\* has status 'active', at least one supply-chain checkpoint and a
\* blockNumber that is defined and below the chain length; so a
\* verifyMedicine of a registered batch passes 'Not Previously Sold',
\* 'Supply Chain Valid' and 'Blockchain Integrity', and returns isAuthentic
\* = false exactly when the batch's expiry date is not after the current
\* time.
C35_OnlyExpiryFailsARegisteredBatch ==
    /\ \A i \in 1..Len(medicines) :
          /\ medicines[i][2].status = "active"
          /\ Len(medicines[i][2].supplyChain) > 0
          /\ medicines[i][2].blockNumber # Undefined
          /\ medicines[i][2].blockNumber < Len(chain)
    /\ (Verified /\ WasPresent) =>
          /\ PassedCheck("Not Previously Sold")
          /\ PassedCheck("Supply Chain Valid")
          /\ PassedCheck("Blockchain Integrity")
          /\ PassedCheck("Medicine Not Expired") = last.isAuthentic
          /\ ~last.isAuthentic = ~DateAfter(RecordBefore.expiryDate, last.time)

C35_Witness ==
    /\ Verified /\ WasPresent
    /\ Len(RecordBefore.supplyChain) = 2
    /\ RecordBefore.expiryDate = 1 /\ last.time = 1
    /\ ~last.isAuthentic
    /\ PassedCheck("Supply Chain Valid")
    /\ PassedCheck("Blockchain Integrity")
    /\ PassedCheck("Not Previously Sold")

\* The number of entries of a list that satisfy a test.
CountOf(list, Test(_)) == Cardinality({i \in 1..Len(list) : Test(list[i])})

IsVerificationTx(tx) == tx.type = "verification"
OfUnregistered(entry) == "reason" \in DOMAIN entry

\* The sum of scanCount over the records of a medicine map.
RECURSIVE SumScanCount(_)
SumScanCount(m) ==
    IF m = <<>> THEN 0
    ELSE m[Len(m)][2].scanCount + SumScanCount(SubSeq(m, 1, Len(m) - 1))

\* C36: with the engine's calls made one at a time, every record's scanCount
\* is the length of its verifications list; the scan history has as many
\* entries as there are 'verification' transactions and as verifyMedicine
\* calls made (each call adds one entry and one such transaction, no other
\* call adds any); and the sum of scanCount over the records plus the
\* number of verifications of unregistered ids is the scan history's length.
C36_ScanCountsAgree ==
    /\ \A i \in 1..Len(medicines) :
          medicines[i][2].scanCount = Len(medicines[i][2].verifications)
    /\ Len(scanHistory) = CountOf(transactions, IsVerificationTx)
    /\ SumScanCount(medicines) + CountOf(scanHistory, OfUnregistered) = Len(scanHistory)
    /\ Grew("scanHistory", IF Verified THEN 1 ELSE 0)
    /\ CountOf(transactions, IsVerificationTx)
          = CountOf(last.pre.transactions, IsVerificationTx) + (IF Verified THEN 1 ELSE 0)
    /\ CountOf(scanHistory, OfUnregistered)
          = CountOf(last.pre.scanHistory, OfUnregistered)
               + (IF Verified /\ ~WasPresent THEN 1 ELSE 0)
    /\ SumScanCount(medicines)
          = SumScanCount(last.pre.medicines) + (IF Verified /\ WasPresent THEN 1 ELSE 0)

C36_Witness ==
    /\ Verified /\ WasPresent
    /\ Len(scanHistory) = 2
    /\ CountOf(scanHistory, OfUnregistered) = 1
    /\ SumScanCount(medicines) = 1
    /\ CountOf(transactions, IsVerificationTx) = 2

\* The places of an event in what the listeners of the last call heard.
Heard(event) == {i \in 1..Len(last.emitted) : last.emitted[i].event = event}

\* The one notification of an event is the last thing the call did: the
\* listener saw the collections as the call left them, already saved.
HeardOnceAtTheEnd(event) ==
    /\ Heard(event) = {Len(last.emitted)}
    /\ last.emitted[Len(last.emitted)].seen = Snapshot(Engine)
    /\ last.emitted[Len(last.emitted)].saved = << Snapshot(Engine) >>
    /\ storage = << Snapshot(Engine) >>

\* C31: a registerMedicine that returns emits 'medicineRegistered' exactly
\* once, after the record and its confirmed transaction are in the map and
\* the list and saved, and one that throws emits nothing; every
\* verifyMedicine emits 'verificationComplete' exactly once, with the
\* isAuthentic it returns, after its scan-history entry, its transaction and
\* (when it fails) its alert are stored and saved; no other call emits either
\* event.
C31_NotificationsFollowTheCommit ==
    /\ (Registered /\ last.threw = "none") =>
          /\ HeardOnceAtTheEnd("medicineRegistered")
          /\ LET note == last.emitted[Len(last.emitted)]
             IN  /\ MapHas(note.seen.medicines, last.batchNumber)
                 /\ MapGet(note.seen.medicines, last.batchNumber) = note.data.medicine
                 /\ note.data.transaction.status = "confirmed"
                 /\ note.seen.transactions[Len(note.seen.transactions)]
                       = note.data.transaction
                 /\ Len(note.seen.transactions) = Len(last.pre.transactions) + 1
    /\ (Registered /\ last.threw # "none") => last.emitted = <<>>
    /\ ~Registered => Heard("medicineRegistered") = {}
    /\ Verified =>
          /\ HeardOnceAtTheEnd("verificationComplete")
          /\ LET note == last.emitted[Len(last.emitted)]
             IN  /\ note.data.isAuthentic = last.isAuthentic
                 /\ note.data.batchNumber = last.batchNumber
                 /\ Len(note.seen.scanHistory) = Len(last.pre.scanHistory) + 1
                 /\ CountOf(note.seen.transactions, IsVerificationTx)
                       = CountOf(last.pre.transactions, IsVerificationTx) + 1
                 /\ Len(note.seen.alerts)
                       = Len(last.pre.alerts) + (IF last.isAuthentic THEN 0 ELSE 1)
    /\ ~Verified => Heard("verificationComplete") = {}

C31_Witness ==
    /\ Verified /\ WasPresent /\ ~last.isAuthentic
    /\ Len(last.emitted) = 4
    /\ last.emitted[3].event = "alertCreated"
    /\ last.emitted[4].event = "verificationComplete"
    /\ ~last.emitted[4].data.isAuthentic
    /\ \E i \in 1..Len(transactions) : transactions[i].type = "registration"

\* The block at place i of the chain is of the given type and is about the
\* batch of the last call.
BlockIs(i, type) ==
    chain[i].data.type = type /\ chain[i].data.batchNumber = last.batchNumber

\* C37: a verifyMedicine of a batch that is not in the map appends the
\* 'counterfeit_alert' block and emits 'alertCreated' before the
\* 'verification_failed' block is appended; a verifyMedicine of a batch that
\* is in the map and fails a check appends the 'verification_failed' block
\* and then the 'counterfeit_alert' block; with the calls made one at a time
\* the two blocks are the last two of the chain, next to each other, after
\* the blocks that were there.
C37_AlertOrderDependsOnBranch ==
    /\ (Verified /\ ~last.isAuthentic) =>
          /\ Grew("chain", 2)
          /\ SubSeq(chain, 1, Len(last.pre.chain)) = last.pre.chain
          /\ Heard("blockAdded") = {1, IF WasPresent THEN 2 ELSE 3}
          /\ Heard("alertCreated") = {IF WasPresent THEN 3 ELSE 2}
          /\ Heard("verificationComplete") = {4}
    /\ (Verified /\ ~WasPresent) =>
          /\ BlockIs(Len(chain) - 1, "counterfeit_alert")
          /\ BlockIs(Len(chain), "verification_failed")
          /\ last.emitted[1].data = chain[Len(chain) - 1]
          /\ last.emitted[3].data = chain[Len(chain)]
          /\ last.emitted[2].seen.chain = SubSeq(chain, 1, Len(chain) - 1)
          /\ last.emitted[2].data = alerts[Len(alerts)]
    /\ (Verified /\ WasPresent /\ ~last.isAuthentic) =>
          /\ BlockIs(Len(chain) - 1, "verification_failed")
          /\ BlockIs(Len(chain), "counterfeit_alert")
          /\ last.emitted[1].data = chain[Len(chain) - 1]
          /\ last.emitted[2].data = chain[Len(chain)]
          /\ last.emitted[3].seen.chain = chain
          /\ last.emitted[3].data = alerts[Len(alerts)]

C37_Witness ==
    /\ Verified /\ ~WasPresent
    /\ Len(chain) = 3
    /\ BlockIs(2, "counterfeit_alert")
    /\ BlockIs(3, "verification_failed")
    /\ last.emitted[2].event = "alertCreated"
    /\ Len(last.emitted[2].seen.chain) = 2

Initialized == last.op = "initialize"

\* A genesis block: index 0 and previousHash '0'.
IsGenesis(block) == block.index = 0 /\ block.previousHash = GenesisPrevious

\* C33: when initialize() has completed, whatever the store held, the chain
\* is not empty and has exactly one genesis block, which is its first block.
C33_OneGenesisAfterInitialize ==
    Initialized =>
        /\ Len(chain) > 0
        /\ {i \in 1..Len(chain) : IsGenesis(chain[i])} = {1}

QueryNames == {"getStats", "getAllMedicines", "getMedicine", "search",
               "generateQRData", "isChainValid"}

\* C32: getStats, getAllMedicines, getMedicine, search, generateQRData and
\* isChainValid leave the five collections and the store as they were; and
\* getStats returns totalMedicines = the size of the medicine map,
\* counterfeitAlerts = the number of alerts, totalBlocks = the chain length,
\* totalTransactions = the number of transactions, verifiedAuthentic = the
\* number of scan-history entries with result 'authentic', and in
\* recentTransactions the last min(10, n) of the n transactions, the newest
\* first.
C32_QueriesChangeNothing ==
    /\ last.op \in QueryNames =>
          /\ Snapshot(Engine) = last.pre
          /\ storage = last.stored
    /\ last.op = "getStats" =>
          LET n == Len(transactions)
              recent == last.value.recentTransactions
          IN  /\ last.value.totalMedicines = Cardinality(MapKeys(medicines))
              /\ last.value.counterfeitAlerts = Len(alerts)
              /\ last.value.totalBlocks = Len(chain)
              /\ last.value.totalTransactions = n
              /\ last.value.verifiedAuthentic
                    = Cardinality({i \in 1..Len(scanHistory) :
                                      scanHistory[i].result = "authentic"})
              /\ Len(recent) = (IF n < RecentCount THEN n ELSE RecentCount)
              /\ \A i \in 1..Len(recent) : recent[i] = transactions[n + 1 - i]

C32_Witness ==
    /\ last.op = "getStats"
    /\ Len(transactions) = 12
    /\ Len(last.value.recentTransactions) = 10
    /\ last.value.recentTransactions[1] = transactions[12]
    /\ last.value.recentTransactions[10] = transactions[3]
    /\ last.value.totalBlocks = 13

\* The digest of block b with nonce n has the zero prefix.
Qualifies(b, n) == HasZeroPrefix(CalculateHash([b EXCEPT !.nonce = n]), Difficulty)

\* No nonce from 1 up to the one before b's has a digest with the prefix.
NoneBefore(b) == \A n \in 1..(b.nonce - 1) : ~Qualifies(b, n)

\* The block being mined in slot s carries the digest of its nonce, and the
\* nonces tried so far are 1, 2, ... up to it, none of the earlier ones with
\* the prefix.
SearchInOrder(s) ==
    calls[s].pc = "mine" =>
        LET b == calls[s].newBlock
        IN  /\ b.nonce >= 0
            /\ b.hash = (IF b.nonce = 0 THEN EmptyHash ELSE CalculateHash(b))
            /\ NoneBefore(b)

\* The block addBlock has just pushed for slot s is the head of the chain,
\* has the prefix, and its nonce is the first tried that has it.
FoundIsHead(s) ==
    calls[s].pc = "store" =>
        LET b == calls[s].block
        IN  /\ b = GetLatestBlock(Engine)
            /\ b.hash = CalculateHash(b)
            /\ HasZeroPrefix(b.hash, Difficulty)
            /\ b.nonce >= 1
            /\ NoneBefore(b)
            /\ b = MineBlock([b EXCEPT !.nonce = 0, !.hash = EmptyHash], Difficulty)

\* C34: with a digest function under which some nonce from 1 on has the
\* prefix, every addBlock that has started mining gets its block pushed, and
\* every registerMedicine, verifyMedicine, transferMedicine and createAlert
\* that was started settles; the search hashes the nonces 1, 2, 3, ... in
\* this order and stops at the first whose digest has at least Difficulty
\* leading zeros; the block pushed has such a hash and is the head of the
\* chain when addBlock returns.
C34_StartedMiningCompletes ==
    /\ \A s \in Slots : (calls[s].pc = "mine") ~> (calls[s].pc = "store")
    /\ \A s \in Slots : (calls[s].pc # "free") ~> (calls[s].pc = "free")
    /\ [](\A s \in Slots : SearchInOrder(s) /\ FoundIsHead(s))
    /\ [](\A i \in 2..Len(chain) : HasZeroPrefix(chain[i].hash, Difficulty))
    /\ [][\A s \in Slots :
            (calls[s].pc = "mine" /\ calls'[s].pc = "mine"
               /\ calls'[s].newBlock # calls[s].newBlock) =>
                  calls'[s].newBlock.nonce = calls[s].newBlock.nonce + 1]_vars

C34_Witness ==
    \E s \in Slots :
        /\ calls[s].pc = "store"
        /\ calls[s].block.nonce = 3
        /\ calls[s].block = GetLatestBlock(Engine)
        /\ HasZeroPrefix(calls[s].block.hash, Difficulty)
        /\ Len(chain) = 3

====
